---- MODULE Spec2Model ----
(***************************************************************************)
(* Model of the worktree manager's `add` command (cmd/wtm add.go), its     *)
(* branch-reference parsing, the pull-request resolver                     *)
(* (internal/pr/pr.go), and the `pr`, `rm` and `init` commands.            *)
(*                                                                         *)
(* Strings are sequences of one-character strings, so that prefix tests,   *)
(* the PR regular expression and the directory slug are computed on the    *)
(* characters as the Go code computes them.  A Go int is a record          *)
(* [neg, mag] with mag the decimal digits (most significant first, no      *)
(* leading zero), because the 64-bit range matters to strconv.Atoi.        *)
(***************************************************************************)
EXTENDS Integers, Sequences, FiniteSets, TLC

(***************************************************************************)
(* Bounds of the model.                                                    *)
(***************************************************************************)
\* number of tokens concatenated to form the base reference args[0]
MaxParts == 3
\* number of times the command is run in one behaviour
MaxRuns == 2

(***************************************************************************)
(* State.                                                                  *)
(***************************************************************************)
VARIABLES
    command,      \* the command that is run: "add", "pr", "rm" or "init";
                  \* "hook" when RunHook is called on its own
    args,         \* the arguments of `add` (built by `pr`), `rm` or `init`
    prArgs,       \* the arguments of `pr`
    addNoHooks,   \* the --no-hooks flag of add
    rmForce, rmDeleteBranch, rmNoHooks,
                  \* the flags of rm
    initNew, initNoHooks,
                  \* the flags of init
    defaultBranch,
                  \* local of runInit
    hookStat,     \* what os.Stat finds at the hook path RunHook is given
    hookContent,  \* the content of the hook file
    hookBranch,   \* the branch name RunHook is given
    hookResult,   \* what RunHook did and returned
    remoteHeads,  \* repository: names of the branches under
                  \* refs/remotes/origin
    cwd,          \* the current directory, as a path below rootDir
    dirty,        \* worktree paths with changes to tracked files
    untracked,    \* worktree paths with untracked files
    detached,     \* worktree paths whose HEAD is detached
    hookFile,     \* .worktree/hooks/post-delete exists
    before,       \* the repository as it was when rm, or a further run of
                  \* add, was started, and the error of the run before
    run,          \* number of the current run of the command
    pc,           \* position of the current run in runAdd
    ghAvailable,  \* environment: gh is on the PATH
    remoteURL,    \* environment: URL of the origin remote
    heads,        \* repository: names of the local branches (refs/heads)
    tip,          \* repository: the commit each local branch points at
    dirs,         \* file system: worktree paths existing below rootDir
    worktrees,    \* repository: [path, branch] of the worktrees added
    baseBranch, newBranch, directory, isPR, prNumber, matches, startPoint,
                  \* locals of runAdd
    err,          \* the error runAdd returns, "nil" for none
    branchName,   \* what pr.FetchPR returned
    tier,         \* which tier of FetchPR produced branchName
    headRefName,  \* prInfo.HeadRefName as parsed by fetchPRWithGH
    attempts,     \* the tiers FetchPR tried, in order, each with its error
    warnings,     \* ui.Warning calls of the current run
    ops,          \* the calls the current run made, in order
    cls,          \* the classification the current run computed
    prevCls       \* the classification and environment of the previous run

initVars == <<initNew, initNoHooks, defaultBranch>>

hookVars == <<hookStat, hookContent, hookBranch, hookResult>>

cmdVars ==
    <<command, args, prArgs, addNoHooks, rmForce, rmDeleteBranch, rmNoHooks,
      initVars, hookVars, remoteHeads, run>>

treeVars == <<cwd, dirty, untracked, detached, hookFile, before>>

envVars == <<ghAvailable, remoteURL, heads, tip, dirs, worktrees>>

localVars ==
    <<baseBranch, newBranch, directory, isPR, prNumber, matches, startPoint>>

fetchVars == <<branchName, tier, headRefName, attempts>>

vars ==
    <<cmdVars, treeVars, pc, envVars, localVars, err, fetchVars, warnings,
      ops, cls, prevCls>>

(***************************************************************************)
(* Characters and string helpers (package strings).                        *)
(***************************************************************************)
DigitChars == <<"0", "1", "2", "3", "4", "5", "6", "7", "8", "9">>

Digits == {DigitChars[i] : i \in 1..Len(DigitChars)}

Letters ==
    {"a", "b", "c", "d", "e", "f", "g", "h", "i", "j", "k", "l", "m",
     "n", "o", "p", "q", "r", "s", "t", "u", "v", "w", "x", "y", "z",
     "A", "B", "C", "D", "E", "F", "G", "H", "I", "J", "K", "L", "M",
     "N", "O", "P", "Q", "R", "S", "T", "U", "V", "W", "X", "Y", "Z"}

Drop(s, n) == SubSeq(s, n + 1, Len(s))

Take(s, n) == SubSeq(s, 1, n)

HasPrefix(s, p) == Len(s) >= Len(p) /\ Take(s, Len(p)) = p

HasSuffix(s, p) == Len(s) >= Len(p) /\ Drop(s, Len(s) - Len(p)) = p

TrimPrefix(s, p) == IF HasPrefix(s, p) THEN Drop(s, Len(p)) ELSE s

TrimSuffix(s, p) == IF HasSuffix(s, p) THEN Take(s, Len(s) - Len(p)) ELSE s

\* strings.ReplaceAll for a one-character pattern and replacement
ReplaceAll(s, old, new) == [i \in 1..Len(s) |-> IF s[i] = old THEN new ELSE s[i]]

(***************************************************************************)
(* Go ints and strconv.Atoi / fmt.Sprintf("%d").                           *)
(***************************************************************************)
\* digits of math.MaxInt64 = 9223372036854775807
MaxInt64Mag == <<9, 2, 2, 3, 3, 7, 2, 0, 3, 6, 8, 5, 4, 7, 7, 5, 8, 0, 7>>

\* digits of -math.MinInt64 = 9223372036854775808
MinInt64Mag == <<9, 2, 2, 3, 3, 7, 2, 0, 3, 6, 8, 5, 4, 7, 7, 5, 8, 0, 8>>

Zero == [neg |-> FALSE, mag |-> <<0>>]

DigitVal(c) == CHOOSE d \in 0..9 : DigitChars[d + 1] = c

RECURSIVE StripZeros(_)
StripZeros(ds) ==
    IF Len(ds) > 1 /\ ds[1] = 0 THEN StripZeros(Tail(ds)) ELSE ds

RECURSIVE LexLess(_, _)
\* a < b for digit sequences of the same length
LexLess(a, b) ==
    IF a = <<>> THEN FALSE
    ELSE IF a[1] # b[1] THEN a[1] < b[1]
    ELSE LexLess(Tail(a), Tail(b))

\* a < b for magnitudes without leading zeros
MagLess(a, b) ==
    \/ Len(a) < Len(b)
    \/ Len(a) = Len(b) /\ LexLess(a, b)

\* strconv.Atoi: [val, err]; on a syntax error val is 0, on a range error
\* val is the nearest representable 64-bit value
Atoi(s) ==
    LET signed == s # <<>> /\ s[1] \in {"+", "-"}
        neg == s # <<>> /\ s[1] = "-"
        body == IF signed THEN Tail(s) ELSE s
    IN  IF body = <<>> \/ \E i \in 1..Len(body) : body[i] \notin Digits
        THEN [val |-> Zero, err |-> "syntax"]
        ELSE LET mag == StripZeros([i \in 1..Len(body) |-> DigitVal(body[i])])
                 lim == IF neg THEN MinInt64Mag ELSE MaxInt64Mag
             IN  IF MagLess(lim, mag)
                 THEN [val |-> [neg |-> neg, mag |-> lim], err |-> "range"]
                 ELSE [val |-> [neg |-> neg /\ mag # <<0>>, mag |-> mag],
                       err |-> "nil"]

\* fmt.Sprintf("%d", n)
FormatInt(n) ==
    (IF n.neg THEN <<"-">> ELSE <<>>)
        \o [i \in 1..Len(n.mag) |-> DigitChars[n.mag[i] + 1]]

(***************************************************************************)
(* String constants of the add command.                                    *)
(***************************************************************************)
PrPrefix == <<"p", "r", "/">>

OriginPrefix == <<"o", "r", "i", "g", "i", "n", "/">>

PrDirPrefix == <<"p", "r", "-">>

\* the nil slice returned by FindStringSubmatch when nothing matches
Nil == <<>>

(***************************************************************************)
(* regexp `^pr/(\d+)(?:/(.+))?$` (add.go), as FindStringSubmatch applies   *)
(* it: \d+ is greedy over ASCII digits, `.` matches any character but a    *)
(* newline, `$` matches only at the end of the text.                       *)
(***************************************************************************)
RECURSIVE DigitRun(_)
\* length of the longest prefix of s made of digits
DigitRun(s) ==
    IF s # <<>> /\ s[1] \in Digits THEN 1 + DigitRun(Tail(s)) ELSE 0

\* <<whole match, group 1, group 2>> or Nil
PRSubmatch(s) ==
    IF ~HasPrefix(s, PrPrefix) THEN Nil
    ELSE LET rest == Drop(s, Len(PrPrefix))
             k == DigitRun(rest)
             after == Drop(rest, k)
         IN  IF k = 0 THEN Nil
             ELSE IF after = <<>> THEN <<s, Take(rest, k), <<>>>>
             ELSE IF /\ after[1] = "/"
                     /\ Len(after) >= 2
                     /\ \A i \in 2..Len(after) : after[i] # "\n"
                  THEN <<s, Take(rest, k), Tail(after)>>
             ELSE Nil

\* faulty variant of IsPRRef, against which C2 is tested: only a well-formed
\* pr/ reference takes the PR path, a malformed one falls through
IsPRRefWellFormedOnly(ref) == PRSubmatch(ref) # Nil

\* add.go line 86: the test that sends a reference down the PR path
IsPRRef(ref) == HasPrefix(ref, PrPrefix)

\* add.go line 94: prNumber, _ = strconv.Atoi(matches[1]); the error is dropped
ParsePRNumber(digits) == Atoi(digits).val

\* faulty variant of normalizeRemoteBranch, against which C5 is tested: the
\* origin/ prefix is recognized but not trimmed
normalizeKeepsPrefix(branchRef) ==
    IF HasPrefix(branchRef, OriginPrefix)
    THEN <<branchRef, branchRef>>
    ELSE <<branchRef, <<>>>>

\* faulty variant of normalizeRemoteBranch, against which C6 is tested: any
\* <remote>/<branch> is decomposed, not only origin/
normalizeAnyRemote(branchRef) ==
    LET k == IF \E i \in 1..Len(branchRef) : branchRef[i] = "/"
             THEN CHOOSE i \in 1..Len(branchRef) :
                      /\ branchRef[i] = "/"
                      /\ \A j \in 1..(i - 1) : branchRef[j] # "/"
             ELSE 0
    IN  IF k > 1 /\ k < Len(branchRef)
        THEN <<Drop(branchRef, k), branchRef>>
        ELSE <<branchRef, <<>>>>

\* faulty variant of normalizeRemoteBranch, against which C9 is tested:
\* origin/ is trimmed only while the local branch does not exist yet, which
\* makes the result depend on the repository
normalizeUnlessLocal(branchRef) ==
    IF /\ HasPrefix(branchRef, OriginPrefix)
       /\ TrimPrefix(branchRef, OriginPrefix) \notin heads
    THEN <<TrimPrefix(branchRef, OriginPrefix), branchRef>>
    ELSE <<branchRef, <<>>>>

\* add.go normalizeRemoteBranch: <<localName, startPoint>>
normalizeRemoteBranch(branchRef) ==
    IF HasPrefix(branchRef, OriginPrefix)
    THEN <<TrimPrefix(branchRef, OriginPrefix), branchRef>>
    ELSE <<branchRef, <<>>>>

(***************************************************************************)
(* worktree.GenerateWorktreeDirectory                                      *)
(***************************************************************************)
\* regexp [^a-zA-Z0-9-]+ replaced by "": keep only letters, digits, hyphens
KeepSlugChars(s) == SelectSeq(s, LAMBDA c : c \in Letters \cup Digits \cup {"-"})

RECURSIVE SqueezeHyphens(_)
\* regexp -+ replaced by "-"
SqueezeHyphens(s) ==
    IF Len(s) < 2 THEN s
    ELSE IF s[1] = "-" /\ s[2] = "-" THEN SqueezeHyphens(Tail(s))
    ELSE <<s[1]>> \o SqueezeHyphens(Tail(s))

RECURSIVE TrimLeft(_, _)
TrimLeft(s, c) == IF s # <<>> /\ s[1] = c THEN TrimLeft(Tail(s), c) ELSE s

RECURSIVE TrimRight(_, _)
TrimRight(s, c) ==
    IF s # <<>> /\ s[Len(s)] = c THEN TrimRight(Take(s, Len(s) - 1), c) ELSE s

\* strings.Trim(s, c) for a one-character cutset
Trim(s, c) == TrimRight(TrimLeft(s, c), c)

\* faulty variant of GenerateWorktreeDirectory, against which C25 is
\* tested: runs of hyphens are not reduced to one hyphen
GenerateWorktreeDirectoryNoSqueeze(branch) ==
    Trim(KeepSlugChars(ReplaceAll(ReplaceAll(branch, "/", "-"), "_", "-")),
         "-")

GenerateWorktreeDirectory(branch) ==
    Trim(SqueezeHyphens(KeepSlugChars(
        ReplaceAll(ReplaceAll(branch, "/", "-"), "_", "-"))), "-")

(***************************************************************************)
(* filepath.Join(rootDir, directory), relative to rootDir: the cleaned     *)
(* list of path components.  The model's alphabet has no "." so cleaning   *)
(* only drops empty components (repeated, leading and trailing slashes).   *)
(***************************************************************************)
RECURSIVE SplitPath(_, _)
\* components of s separated by "/", cur being the component in progress
SplitPath(s, cur) ==
    IF s = <<>> THEN (IF cur = <<>> THEN <<>> ELSE <<cur>>)
    ELSE IF s[1] = "/"
         THEN (IF cur = <<>> THEN <<>> ELSE <<cur>>) \o SplitPath(Tail(s), <<>>)
         ELSE SplitPath(Tail(s), cur \o <<s[1]>>)

\* the worktree path below rootDir; <<>> is rootDir itself
JoinRoot(dir) == SplitPath(dir, <<>>)

(***************************************************************************)
(* Inputs.  A base reference is a prefix followed by up to MaxParts        *)
(* tokens; the other arguments of `add` are absent or fixed names.         *)
(***************************************************************************)
BigDigits == <<"9", "2", "2", "3", "3", "7", "2", "0", "3", "6", "8", "5", "4", "7", "7", "5", "8", "0", "8">>

RefPrefixes == {<<>>, PrPrefix, OriginPrefix}

RefTokens ==
    {<<"/">>, <<"a">>, <<"/", "a">>, <<"0">>, <<"7">>, <<"-">>, <<"\n">>,
     PrPrefix, OriginPrefix, BigDigits}

RECURSIVE TokenStrings(_)
\* the concatenations of at most n tokens
TokenStrings(n) ==
    IF n = 0 THEN {<<>>}
    ELSE LET shorter == TokenStrings(n - 1)
         IN  shorter \cup {s \o t : s \in shorter, t \in RefTokens}

ParseRefs == {p \o b : p \in RefPrefixes, b \in TokenStrings(MaxParts)}

\* the references the whole command is run on
FlowRefs ==
    {<<"p", "r", "/", "7">>, <<"p", "r", "/", "7", "/", "a">>, <<"p", "r", "/", "0">>, <<"p", "r", "/", "a">>, <<"p", "r", "/">>,
     <<"p", "r", "/", "7", "/", "a", "/", "a">>, PrPrefix \o BigDigits,
     <<"o", "r", "i", "g", "i", "n", "/", "a">>, <<"o", "r", "i", "g", "i", "n", "/", "a", "/", "a">>, <<"o", "r", "i", "g", "i", "n", "/">>,
     <<"a">>, <<"a", "/", "a">>, <<>>}

NewBranchArg == <<"n">>

DirectoryArg == <<"d">>

\* the argument lists cobra.RangeArgs(1, 3) lets through, for base reference r
ArgLists(r) ==
    {<<r>>, <<r, NewBranchArg>>, <<r, NewBranchArg, DirectoryArg>>,
     <<r, <<>>, DirectoryArg>>}

\* local branches the bare repository may hold before the command runs
InitialHeads == {{}, {<<"a">>, NewBranchArg}}

\* the origin remote's URL; NoRemote: `git remote get-url origin` fails
NoRemote == <<"!">>

RemoteURLs ==
    {<<"g", "i", "t", "@", "g", "i", "t", "h", "u", "b", ".", "c", "o", "m", ":", "o", "/", "r", ".", "g", "i", "t">>,
     <<"h", "t", "t", "p", "s", ":", "/", "/", "g", "i", "t", "h", "u", "b", ".", "c", "o", "m", "/", "o", "/", "r">>,
     <<"h", "t", "t", "p", "s", ":", "/", "/", "g", "i", "t", "l", "a", "b", ".", "c", "o", "m", "/", "o", "/", "r", ".", "g", "i", "t">>,
     NoRemote}

\* head branch names the gh metadata query may report
HeadRefNames == {<<>>, <<"h">>, <<"a">>}

(***************************************************************************)
(* internal/pr: getRepoSlug and the refspecs of the fetches.               *)
(***************************************************************************)
DotGit == <<".", "g", "i", "t">>

SSHPrefix == <<"g", "i", "t", "@", "g", "i", "t", "h", "u", "b", ".", "c", "o", "m", ":">>

HTTPSPrefix == <<"h", "t", "t", "p", "s", ":", "/", "/", "g", "i", "t", "h", "u", "b", ".", "c", "o", "m", "/">>

HTTPPrefix == <<"h", "t", "t", "p", ":", "/", "/", "g", "i", "t", "h", "u", "b", ".", "c", "o", "m", "/">>

\* strings.TrimSpace, for the white space of the model's alphabet
TrimSpace(s) == Trim(Trim(s, "\n"), " ")

\* what `git remote get-url origin` prints for the configured URL
RemoteGetURL(url) == url \o <<"\n">>

\* getRepoSlug: [slug, ok]
getRepoSlug(url) ==
    IF url = NoRemote THEN [slug |-> <<>>, ok |-> FALSE]
    ELSE LET remote == TrimSuffix(TrimSpace(RemoteGetURL(url)), DotGit)
         IN  IF HasPrefix(remote, SSHPrefix)
             THEN [slug |-> TrimPrefix(remote, SSHPrefix), ok |-> TRUE]
             ELSE IF HasPrefix(remote, HTTPSPrefix)
             THEN [slug |-> TrimPrefix(remote, HTTPSPrefix), ok |-> TRUE]
             ELSE IF HasPrefix(remote, HTTPPrefix)
             THEN [slug |-> TrimPrefix(remote, HTTPPrefix), ok |-> TRUE]
             ELSE [slug |-> <<>>, ok |-> FALSE]

\* faulty variant of HeadRefspec, against which C29 is tested: the refspec
\* of the gh tier and of the first refspec attempt is forced
HeadRefspecForced(n, branch) ==
    <<"+", "p", "u", "l", "l", "/">> \o FormatInt(n) \o <<"/", "h", "e", "a", "d", ":">> \o branch

\* fmt.Sprintf("pull/%d/head:%s", prNumber, branch)
HeadRefspec(n, branch) ==
    <<"p", "u", "l", "l", "/">> \o FormatInt(n) \o <<"/", "h", "e", "a", "d", ":">> \o branch

\* fmt.Sprintf("+refs/pull/%d/head:refs/heads/%s", prNumber, branch)
ForceRefspec(n, branch) ==
    <<"+", "r", "e", "f", "s", "/", "p", "u", "l", "l", "/">> \o FormatInt(n) \o <<"/", "h", "e", "a", "d", ":", "r", "e", "f", "s", "/", "h", "e", "a", "d", "s", "/">> \o branch

\* fmt.Sprintf("pr-%d", prNumber)
PRDirectory(n) == PrDirPrefix \o FormatInt(n)

(***************************************************************************)
(* `git fetch origin <src>:<dst>`, as FetchRef and fetchPRWithRefspec run  *)
(* it.  A local branch points at a commit; the commits are told apart by   *)
(* their relation to the head commit of the pull request: "pr" is that     *)
(* commit, "ancestor" one git can fast-forward from, "diverged" one it     *)
(* cannot, "created" the commit a branch was created at by git worktree    *)
(* add or git clone.                                                       *)
(***************************************************************************)
\* a leading + asks git to update the destination without the fast-forward
\* check
Forced(refspec) == refspec # <<>> /\ refspec[1] = "+"

\* the local branch a refspec <src>:<dst> writes
Destination(refspec) ==
    LET colon == CHOOSE i \in 1..Len(refspec) :
                     /\ refspec[i] = ":"
                     /\ \A j \in 1..(i - 1) : refspec[j] # ":"
    IN  TrimPrefix(Drop(refspec, colon),
                   <<"r", "e", "f", "s", "/", "h", "e", "a", "d", "s", "/">>)

\* git refuses the fetch whatever the remote answers: the destination is
\* checked out in a worktree, or the update is not a fast-forward and not
\* forced
Refused(refspec) ==
    LET dst == Destination(refspec)
    IN  \/ \E w \in worktrees : w.branch = dst
        \/ /\ dst \in DOMAIN tip
           /\ ~Forced(refspec)
           /\ tip[dst] \notin {"pr", "ancestor"}

\* the refspecs of the git fetch calls among calls
Fetches(calls) ==
    {calls[i][2] : i \in {j \in 1..Len(calls) :
                              calls[j][1] \in {"FetchRef", "Fetch"}}}

\* the commits of the branches of newHeads once the refspecs of fetched
\* were fetched: a fetched branch points at the head of the pull request,
\* a branch that was there keeps its commit
TipsAfter(newHeads, fetched) ==
    [b \in newHeads |->
        IF b \in {Destination(f) : f \in fetched} THEN "pr"
        ELSE IF b \in DOMAIN tip THEN tip[b]
        ELSE "created"]

(***************************************************************************)
(* Initial state.                                                          *)
(***************************************************************************)
NoCls ==
    [set |-> FALSE, isPR |-> FALSE, prNumber |-> Zero, hint |-> <<>>,
     localName |-> <<>>, startPoint |-> <<>>, err |-> "nil",
     heads |-> {}, tips |-> <<>>, gh |-> FALSE]

\* the values the locals of runAdd have when it is entered
FreshLocals ==
    /\ baseBranch = <<>>
    /\ newBranch = <<>>
    /\ directory = <<>>
    /\ isPR = FALSE
    /\ prNumber = Zero
    /\ matches = Nil
    /\ startPoint = <<>>
    /\ err = "nil"
    /\ branchName = <<>>
    /\ tier = "none"
    /\ headRefName = <<>>
    /\ attempts = <<>>
    /\ warnings = {}
    /\ ops = <<>>
    /\ cls = NoCls

NoBefore == [heads |-> {}, dirs |-> {}, worktrees |-> {}, err |-> "nil"]

\* RunHook has not returned
NoResult ==
    [returned |-> FALSE, err |-> "nil", calls |-> <<>>, processed |-> <<>>]

\* init is not run: its flags have their defaults; RunHook is not called
\* on its own
NoInit ==
    /\ initNew = FALSE
    /\ initNoHooks = FALSE
    /\ defaultBranch = <<>>
    /\ hookStat = "absent"
    /\ hookContent = <<>>
    /\ hookBranch = <<>>
    /\ hookResult = NoResult

\* rm has not been run: its flags have their defaults
NoRm ==
    /\ rmForce = FALSE
    /\ rmDeleteBranch = FALSE
    /\ rmNoHooks = FALSE
    /\ cwd = <<>>
    /\ dirty = {}
    /\ untracked = {}
    /\ detached = {}
    /\ hookFile = FALSE
    /\ before = NoBefore

\* `add` is started on a reference of refs, the origin remote being of urls
\* and its branches known to the repository those of remotes
InitRepo(refs, urls, remotes) ==
    /\ remoteHeads \in remotes
    /\ command = "add"
    /\ \E r \in refs : args \in ArgLists(r)
    /\ prArgs = <<>>
    /\ addNoHooks \in BOOLEAN
    /\ run = 1
    /\ pc = "start"
    /\ ghAvailable \in BOOLEAN
    /\ remoteURL \in urls
    /\ heads \in InitialHeads
    /\ dirs = {}
    /\ worktrees = {}
    /\ FreshLocals
    /\ prevCls = NoCls
    /\ NoRm
    /\ NoInit

\* in a repository without remote-tracking branches, every branch at a
\* commit git can fast-forward from
InitOf(refs, urls) ==
    /\ InitRepo(refs, urls, {{}})
    /\ tip = [b \in heads |-> "ancestor"]

InitWith(refs) == InitOf(refs, RemoteURLs)

Init == InitWith(FlowRefs)

\* the parser alone, on every reference of ParseRefs
InitParse ==
    /\ InitWith(ParseRefs)
    /\ addNoHooks = FALSE
    /\ ghAvailable = FALSE
    /\ remoteURL = NoRemote
    /\ heads = {}

(***************************************************************************)
(* runAdd, lines 64-68: config.FindRoot.  Whether the working directory    *)
(* lies in a managed repository is an input of the run.                    *)
(***************************************************************************)
FindRoot ==
    /\ pc = "start"
    /\ \E found \in BOOLEAN :
        /\ ops' = Append(ops, <<"FindRoot">>)
        /\ IF found
           THEN pc' = "parse" /\ err' = err
           ELSE pc' = "done" /\ err' = "not in a worktree-managed repository"
    /\ UNCHANGED <<cmdVars, treeVars, envVars, localVars, fetchVars,
                   warnings, cls, prevCls>>

(***************************************************************************)
(* runAdd, lines 70-114: the arguments, the PR syntax and the remote       *)
(* branch reference.  ParseReference computes the locals as the code       *)
(* assigns them; failed is the early return of line 91.                    *)
(***************************************************************************)
ParseReference(a) ==
    LET base == a[1]
        nb0 == IF Len(a) > 1 THEN a[2] ELSE <<>>
        dir0 == IF Len(a) > 2 THEN a[3] ELSE <<>>
    IN  IF IsPRRef(base)
        THEN LET m == PRSubmatch(base)
             IN  IF m = Nil
                 THEN [isPR |-> TRUE, prNumber |-> Zero, matches |-> Nil,
                       newBranch |-> nb0, directory |-> dir0,
                       startPoint |-> <<>>, normalized |-> FALSE,
                       failed |-> TRUE]
                 ELSE LET n == ParsePRNumber(m[2])
                          dir1 == IF m[3] # <<>> THEN m[3] ELSE dir0
                          swap == dir1 = <<>> /\ nb0 # <<>>
                          dir2 == IF swap THEN nb0 ELSE dir1
                          nb1 == IF swap THEN <<>> ELSE nb0
                          dir3 == IF dir2 = <<>> THEN PRDirectory(n) ELSE dir2
                      IN  [isPR |-> TRUE, prNumber |-> n, matches |-> m,
                           newBranch |-> nb1, directory |-> dir3,
                           startPoint |-> <<>>, normalized |-> FALSE,
                           failed |-> FALSE]
        ELSE IF nb0 = <<>>
             THEN LET nr == normalizeRemoteBranch(base)
                  IN  [isPR |-> FALSE, prNumber |-> Zero, matches |-> Nil,
                       newBranch |-> nr[1], directory |-> dir0,
                       startPoint |-> nr[2], normalized |-> TRUE,
                       failed |-> FALSE]
             ELSE [isPR |-> FALSE, prNumber |-> Zero, matches |-> Nil,
                   newBranch |-> nb0, directory |-> dir0,
                   startPoint |-> <<>>, normalized |-> FALSE,
                   failed |-> FALSE]

ParseArgs ==
    /\ pc = "parse"
    /\ LET p == ParseReference(args)
           e == IF p.failed THEN "invalid PR syntax" ELSE "nil"
       IN  /\ baseBranch' = args[1]
           /\ newBranch' = p.newBranch
           /\ directory' = p.directory
           /\ isPR' = p.isPR
           /\ prNumber' = p.prNumber
           /\ matches' = p.matches
           /\ startPoint' = p.startPoint
           /\ err' = e
           /\ ops' = IF p.normalized
                     THEN Append(ops, <<"normalizeRemoteBranch", args[1]>>)
                     ELSE ops
           /\ cls' = [set |-> TRUE, isPR |-> p.isPR, prNumber |-> p.prNumber,
                      hint |-> IF p.matches = Nil THEN <<>> ELSE p.matches[3],
                      localName |-> IF p.isPR THEN <<>> ELSE p.newBranch,
                      startPoint |-> p.startPoint, err |-> e,
                      heads |-> heads, tips |-> tip, gh |-> ghAvailable]
           /\ pc' = IF p.failed THEN "done" ELSE "dir"
    /\ UNCHANGED <<cmdVars, treeVars, envVars, fetchVars, warnings, prevCls>>

NextParse == FindRoot \/ ParseArgs

SpecParse == InitParse /\ [][NextParse]_vars

(***************************************************************************)
(* runAdd, lines 116-130: the directory name and the test that nothing     *)
(* exists at the worktree path.                                            *)
(***************************************************************************)
\* faulty variant of PathExists, against which C27 is tested: nothing is
\* found at the path
PathExistsNever(path) == FALSE

\* os.Stat(filepath.Join(rootDir, directory)) succeeds: rootDir itself, an
\* existing worktree directory, or a directory on the way to one
PathExists(path) ==
    \/ path = <<>>
    \/ \E d \in dirs : Len(d) >= Len(path) /\ Take(d, Len(path)) = path

DetermineDirectory ==
    /\ pc = "dir"
    /\ LET generated == directory = <<>> /\ ~isPR
           dir == IF directory # <<>> THEN directory
                  ELSE IF isPR THEN PRDirectory(prNumber)
                  ELSE GenerateWorktreeDirectory(newBranch)
           path == JoinRoot(dir)
           called == (IF generated
                      THEN <<<<"GenerateWorktreeDirectory", newBranch>>>>
                      ELSE <<>>) \o <<<<"Stat", path>>>>
       IN  /\ directory' = dir
           /\ ops' = ops \o called
           /\ IF PathExists(path)
              THEN pc' = "done" /\ err' = "directory already exists"
              ELSE pc' = (IF isPR THEN "fetch_gh" ELSE "branch") /\ err' = err
    /\ UNCHANGED <<cmdVars, treeVars, envVars, baseBranch, newBranch, isPR,
                   prNumber, matches, startPoint, fetchVars, warnings, cls,
                   prevCls>>

(***************************************************************************)
(* pr.FetchPR(bareDir, prNumber, directory), called at line 136.           *)
(* Tier 1 is fetchPRWithGH as a whole; the answers of gh and of the        *)
(* remote are inputs.                                                      *)
(***************************************************************************)
\* in attempts: gh was not asked about the pull request
NoView == [ok |-> FALSE, json |-> FALSE, head |-> <<>>]

\* the outcomes of `gh pr view --json headRefName` and of json.Unmarshal
GhViewResults ==
    {[ok |-> FALSE, json |-> FALSE, head |-> <<>>],
     [ok |-> TRUE, json |-> FALSE, head |-> <<>>]}
        \cup {[ok |-> TRUE, json |-> TRUE, head |-> h] : h \in HeadRefNames}

\* faulty variant of fetchPRWithGH, against which C10 is tested: the gh tier
\* fetches into and returns the desired name
fetchPRWithGHDesired(n, desired, view, fetched) ==
    LET ok == /\ ghAvailable
              /\ getRepoSlug(remoteURL).ok
              /\ view.ok
              /\ view.json
              /\ view.head # <<>>
              /\ fetched
    IN  [ok |-> ok,
         branch |-> IF ok THEN desired ELSE <<>>,
         head |-> view.head,
         heads |-> IF ok THEN heads \cup {desired} ELSE heads,
         calls |-> <<<<"LookPath", "gh">>,
                     <<"FetchRef", HeadRefspec(n, desired)>>>>,
         err |-> IF ok THEN "nil" ELSE "gh tier failed"]

\* faulty variant of fetchPRWithGH, against which C14 is tested: the gh tier
\* fetches into the head branch name but returns the desired name
fetchPRWithGHReturnsDesired(n, desired, view, fetched) ==
    LET ok == /\ ghAvailable
              /\ getRepoSlug(remoteURL).ok
              /\ view.ok
              /\ view.json
              /\ view.head # <<>>
              /\ fetched
    IN  [ok |-> ok,
         branch |-> IF ok THEN desired ELSE <<>>,
         head |-> view.head,
         heads |-> IF ok THEN heads \cup {view.head} ELSE heads,
         calls |-> <<<<"LookPath", "gh">>,
                     <<"FetchRef", HeadRefspec(n, view.head)>>>>,
         err |-> IF ok THEN "nil" ELSE "gh tier failed"]

\* faulty variant of fetchPRWithGH, against which C16 is tested: an empty
\* head branch name is not refused, the fetch is issued with it (git then
\* fetches without creating a branch)
fetchPRWithGHNoEmptyCheck(n, desired, view, fetched) ==
    LET fail(calls, h, e) ==
            [ok |-> FALSE, branch |-> <<>>, head |-> h, heads |-> heads,
             calls |-> calls, err |-> e]
        c1 == <<<<"LookPath", "gh">>>>
        c2 == c1 \o <<<<"RemoteGetURL">>>>
        slug == getRepoSlug(remoteURL)
        c3 == c2 \o <<<<"GhPrView", n, slug.slug>>>>
        c4 == c3 \o <<<<"FetchRef", HeadRefspec(n, view.head)>>>>
    IN  IF ~ghAvailable THEN fail(c1, <<>>, "gh CLI not found")
        ELSE IF ~slug.ok THEN fail(c2, <<>>, "failed to determine repository")
        ELSE IF ~view.ok THEN fail(c3, <<>>, "gh pr view failed")
        ELSE IF ~view.json THEN fail(c3, <<>>, "failed to parse PR info")
        ELSE IF ~fetched THEN fail(c4, view.head, "git fetch failed")
        ELSE [ok |-> TRUE, branch |-> view.head, head |-> view.head,
              heads |-> IF view.head # <<>>
                        THEN heads \cup {view.head} ELSE heads,
              calls |-> c4, err |-> "nil"]

\* fetchPRWithGH: [ok, branch, head, heads, calls, err] for the answers view
\* (of gh) and fetched (of the fetch by head name); err is the error the
\* function returns, "nil" for none
fetchPRWithGH(n, desired, view, fetched) ==
    LET fail(calls, h, e) ==
            [ok |-> FALSE, branch |-> <<>>, head |-> h, heads |-> heads,
             calls |-> calls, err |-> e]
        c1 == <<<<"LookPath", "gh">>>>
        c2 == c1 \o <<<<"RemoteGetURL">>>>
        slug == getRepoSlug(remoteURL)
        c3 == c2 \o <<<<"GhPrView", n, slug.slug>>>>
        actualBranch == view.head
        c4 == c3 \o <<<<"FetchRef", HeadRefspec(n, actualBranch)>>>>
    IN  IF ~ghAvailable THEN fail(c1, <<>>, "gh CLI not found")
        ELSE IF ~slug.ok THEN fail(c2, <<>>, "failed to determine repository")
        ELSE IF ~view.ok THEN fail(c3, <<>>, "gh pr view failed")
        ELSE IF ~view.json THEN fail(c3, <<>>, "failed to parse PR info")
        ELSE IF actualBranch = <<>>
             THEN fail(c3, actualBranch, "PR metadata missing headRefName")
        ELSE IF ~fetched THEN fail(c4, actualBranch, "git fetch failed")
        ELSE [ok |-> TRUE, branch |-> actualBranch, head |-> actualBranch,
              heads |-> heads \cup {actualBranch}, calls |-> c4,
              err |-> "nil"]

\* faulty variant of fetchPRWithRefspec, against which C11 is tested: when
\* the gh tier learned the head branch name, the refspec fetch names the
\* branch after it
fetchPRWithRefspecHead(refspec, desired, fetched) ==
    LET name == IF headRefName # <<>> THEN headRefName ELSE desired
    IN  [ok |-> fetched,
         branch |-> IF fetched THEN name ELSE <<>>,
         heads |-> IF fetched THEN heads \cup {name} ELSE heads,
         call |-> <<"Fetch", refspec>>]

\* fetchPRWithRefspec, one `git fetch origin <refspec>` into the desired
\* name: [ok, branch, heads, call]
fetchPRWithRefspec(refspec, desired, fetched) ==
    [ok |-> fetched,
     branch |-> IF fetched THEN desired ELSE <<>>,
     heads |-> IF fetched THEN heads \cup {desired} ELSE heads,
     call |-> <<"Fetch", refspec>>]

\* faulty variant of TierStep, against which C12 is tested: the alternate
\* refspec is fetched although the primary one succeeded
TierStepNoStop(t, ok) ==
    IF t = "RefspecPrimary" THEN [pc |-> "fetch_alternate", err |-> "nil"]
    ELSE IF ok THEN [pc |-> "add_pr", err |-> "nil"]
    ELSE IF t = "GhCli" THEN [pc |-> "fetch_primary", err |-> "nil"]
    ELSE [pc |-> "done", err |-> "failed to fetch PR"]

\* faulty variant of TierStep, against which C13 is tested: a failure of the
\* gh tier is returned to the caller
TierStepGhFatal(t, ok) ==
    IF ok THEN [pc |-> "add_pr", err |-> "nil"]
    ELSE IF t = "GhCli" THEN [pc |-> "done", err |-> "failed to fetch PR"]
    ELSE IF t = "RefspecPrimary" THEN [pc |-> "fetch_alternate", err |-> "nil"]
    ELSE [pc |-> "done", err |-> "failed to fetch PR"]

\* FetchPR lines 16-26, fetchPRWithRefspec lines 113-124 and runAdd lines
\* 136-139: where the outcome of tier t sends the run, and the error runAdd
\* returns when the last tier failed
TierStep(t, ok) ==
    IF ok THEN [pc |-> "add_pr", err |-> "nil"]
    ELSE IF t = "GhCli" THEN [pc |-> "fetch_primary", err |-> "nil"]
    ELSE IF t = "RefspecPrimary" THEN [pc |-> "fetch_alternate", err |-> "nil"]
    ELSE [pc |-> "done", err |-> "failed to fetch PR"]

TryGhCli ==
    /\ pc = "fetch_gh"
    /\ \E view \in GhViewResults, fetched \in BOOLEAN :
        LET r == fetchPRWithGH(prNumber, directory, view, fetched)
            step == TierStep("GhCli", r.ok)
        IN  /\ r.ok => \A f \in Fetches(r.calls) : ~Refused(f)
            /\ ops' = ops \o r.calls
            /\ heads' = r.heads
            /\ tip' = TipsAfter(heads', IF r.ok THEN Fetches(r.calls) ELSE {})
            /\ headRefName' = r.head
            /\ attempts' = Append(attempts,
                   LET queried == \E i \in 1..Len(r.calls) :
                                      r.calls[i][1] = "GhPrView"
                   IN  [tier |-> "GhCli", err |-> r.err, queried |-> queried,
                        view |-> IF queried THEN view ELSE NoView])
            /\ IF r.ok
               THEN branchName' = r.branch /\ tier' = "GhCli"
               ELSE UNCHANGED <<branchName, tier>>
            /\ pc' = step.pc
            /\ err' = step.err
    /\ UNCHANGED <<cmdVars, treeVars, ghAvailable, remoteURL, dirs,
                   worktrees, localVars, warnings, cls, prevCls>>

\* fetchPRWithRefspec, lines 110-113: git fetch origin pull/N/head:<name>
TryRefspecPrimary ==
    /\ pc = "fetch_primary"
    /\ \E fetched \in BOOLEAN :
        LET r == fetchPRWithRefspec(HeadRefspec(prNumber, directory),
                                    directory, fetched)
            step == TierStep("RefspecPrimary", r.ok)
        IN  /\ r.ok => ~Refused(r.call[2])
            /\ ops' = Append(ops, r.call)
            /\ heads' = r.heads
            /\ tip' = TipsAfter(heads', IF r.ok THEN {r.call[2]} ELSE {})
            /\ attempts' = Append(attempts,
                   [tier |-> "RefspecPrimary",
                    err |-> IF r.ok THEN "nil" ELSE "exit status",
                    queried |-> FALSE, view |-> NoView])
            /\ IF r.ok
               THEN branchName' = r.branch /\ tier' = "Refspec"
               ELSE UNCHANGED <<branchName, tier>>
            /\ pc' = step.pc
            /\ err' = step.err
    /\ UNCHANGED <<cmdVars, treeVars, ghAvailable, remoteURL, dirs,
                   worktrees, localVars, headRefName, warnings, cls,
                   prevCls>>

\* fetchPRWithRefspec, lines 114-124: the forced, fully qualified refspec
TryRefspecAlternate ==
    /\ pc = "fetch_alternate"
    /\ \E fetched \in BOOLEAN :
        LET r == fetchPRWithRefspec(ForceRefspec(prNumber, directory),
                                    directory, fetched)
            step == TierStep("RefspecAlternate", r.ok)
        IN  /\ r.ok => ~Refused(r.call[2])
            /\ ops' = Append(ops, r.call)
            /\ heads' = r.heads
            /\ tip' = TipsAfter(heads', IF r.ok THEN {r.call[2]} ELSE {})
            /\ attempts' = Append(attempts,
                   [tier |-> "RefspecAlternate",
                    err |-> IF r.ok THEN "nil" ELSE "failed to fetch PR",
                    queried |-> FALSE, view |-> NoView])
            /\ IF r.ok
               THEN branchName' = r.branch /\ tier' = "Refspec"
               ELSE UNCHANGED <<branchName, tier>>
            /\ pc' = step.pc
            /\ err' = step.err
    /\ UNCHANGED <<cmdVars, treeVars, ghAvailable, remoteURL, dirs,
                   worktrees, localVars, headRefName, warnings, cls, prevCls>>

(***************************************************************************)
(* git.AddWorktree(bareDir, branch, path, startPoint).  accepted is git's  *)
(* answer where the model does not decide it (whether the start point      *)
(* resolves, whether a remote branch of that name can be tracked); git     *)
(* always refuses an empty branch name, a branch checked out in another    *)
(* worktree, and -b with a branch that already exists.                     *)
(***************************************************************************)
CheckedOut == {w.branch : w \in worktrees}

AddWorktree(branch, path, start, accepted) ==
    LET ok == /\ accepted
              /\ branch # <<>>
              /\ branch \notin CheckedOut
              /\ ~PathExists(path)
              /\ start # <<>> => branch \notin heads
    IN  [ok |-> ok,
         heads |-> IF ok THEN heads \cup {branch} ELSE heads,
         dirs |-> IF ok THEN dirs \cup {path} ELSE dirs,
         worktrees |-> IF ok
                       THEN worktrees \cup {[path |-> path, branch |-> branch]}
                       ELSE worktrees,
         call |-> <<"AddWorktree", branch, path, start>>]

\* faulty variant of worktreePath, against which C18 is tested: the PR
\* worktree is placed in a directory named after the branch FetchPR returned
worktreePathOfBranch ==
    JoinRoot(IF isPR THEN GenerateWorktreeDirectory(branchName) ELSE directory)

\* runAdd, line 125: worktreePath := filepath.Join(rootDir, directory)
worktreePath == JoinRoot(directory)

\* faulty variant of AddWorktreePR, against which C28 is tested: the error
\* of git.AddWorktree is not returned and the run goes on to the files
AddWorktreePRContinues ==
    /\ pc = "add_pr"
    /\ \E accepted \in BOOLEAN :
        LET r == AddWorktree(branchName, worktreePath, <<>>, accepted)
        IN  /\ ops' = Append(ops, r.call)
            /\ heads' = r.heads
            /\ tip' = TipsAfter(heads', {})
            /\ dirs' = r.dirs
            /\ worktrees' = r.worktrees
            /\ pc' = "files"
            /\ newBranch' = branchName
            /\ err' = err
    /\ UNCHANGED <<cmdVars, treeVars, ghAvailable, remoteURL, baseBranch,
                   directory, isPR, prNumber, matches, startPoint, fetchVars,
                   warnings, cls, prevCls>>

\* runAdd, lines 141-146: the worktree of the branch FetchPR returned
AddWorktreePR ==
    /\ pc = "add_pr"
    /\ \E accepted \in BOOLEAN :
        LET r == AddWorktree(branchName, worktreePath, <<>>, accepted)
        IN  /\ ops' = Append(ops, r.call)
            /\ heads' = r.heads
            /\ tip' = TipsAfter(heads', {})
            /\ dirs' = r.dirs
            /\ worktrees' = r.worktrees
            /\ IF r.ok
               THEN pc' = "files" /\ newBranch' = branchName /\ err' = err
               ELSE /\ pc' = "done"
                    /\ newBranch' = newBranch
                    /\ err' = "failed to create worktree"
    /\ UNCHANGED <<cmdVars, treeVars, ghAvailable, remoteURL, baseBranch,
                   directory, isPR, prNumber, matches, startPoint, fetchVars,
                   warnings, cls, prevCls>>

\* faulty variant of LocalBranchExists, against which C26 is tested: a
\* branch of the origin remote counts as existing, as in git.BranchExists
BranchExists(branch) == branch \in heads \/ branch \in remoteHeads

\* git.LocalBranchExists: show-ref --verify refs/heads/<branch>
LocalBranchExists(branch) == branch \in heads

\* runAdd, lines 163-166
CreateFrom == IF startPoint # <<>> THEN startPoint ELSE baseBranch

\* runAdd, lines 148-173: the worktree of a local or new branch
AddWorktreeBranch ==
    /\ pc = "branch"
    /\ \E accepted \in BOOLEAN :
        LET exists == LocalBranchExists(newBranch)
            start == IF exists THEN <<>> ELSE CreateFrom
            r == AddWorktree(newBranch, worktreePath, start, accepted)
        IN  /\ ops' = ops \o <<<<"LocalBranchExists", newBranch>>, r.call>>
            /\ heads' = r.heads
            /\ tip' = TipsAfter(heads', {})
            /\ dirs' = r.dirs
            /\ worktrees' = r.worktrees
            /\ IF r.ok
               THEN pc' = "files" /\ err' = err
               ELSE pc' = "done" /\ err' = "failed to create worktree"
    /\ UNCHANGED <<cmdVars, treeVars, ghAvailable, remoteURL, localVars,
                   fetchVars, warnings, cls, prevCls>>

(***************************************************************************)
(* runAdd, lines 176-203: the files of .worktree/files, the post-create    *)
(* hook, and the successful return.  Their failures are warnings.          *)
(***************************************************************************)
ProcessFiles ==
    /\ pc = "files"
    /\ \E filesDir \in BOOLEAN, processed \in BOOLEAN :
        IF filesDir
        THEN /\ ops' = Append(ops, <<"ProcessTemplates", newBranch,
                                     worktreePath>>)
             /\ warnings' = IF processed THEN warnings
                            ELSE warnings \cup {"Failed to process files"}
        ELSE UNCHANGED <<ops, warnings>>
    /\ pc' = "hook"
    /\ UNCHANGED <<cmdVars, treeVars, envVars, localVars, err, fetchVars,
                   cls, prevCls>>

\* faulty variant of RunPostCreateHook, against which C23 is tested: a
\* failure of the post-create hook is returned as the error of add
RunPostCreateHookAborts ==
    /\ pc = "hook"
    /\ \E hooked \in BOOLEAN :
        /\ IF ~addNoHooks
           THEN /\ ops' = Append(ops, <<"RunHookByName", "post-create",
                                        newBranch, worktreePath>>)
                /\ warnings' = IF hooked THEN warnings
                               ELSE warnings \cup {"Post-create hook failed"}
           ELSE UNCHANGED <<ops, warnings>>
        /\ err' = IF ~addNoHooks /\ ~hooked THEN "post-create hook failed"
                  ELSE "nil"
    /\ pc' = "done"
    /\ UNCHANGED <<cmdVars, treeVars, envVars, localVars, fetchVars, cls,
                   prevCls>>

RunPostCreateHook ==
    /\ pc = "hook"
    /\ \E hooked \in BOOLEAN :
        IF ~addNoHooks
        THEN /\ ops' = Append(ops, <<"RunHookByName", "post-create", newBranch,
                                     worktreePath>>)
             /\ warnings' = IF hooked THEN warnings
                            ELSE warnings \cup {"Post-create hook failed"}
        ELSE UNCHANGED <<ops, warnings>>
    /\ pc' = "done"
    /\ err' = "nil"
    /\ UNCHANGED <<cmdVars, treeVars, envVars, localVars, fetchVars, cls,
                   prevCls>>

(***************************************************************************)
(* The command is run again with the same arguments.  Between the runs gh  *)
(* may be installed or removed and branches created or deleted (git        *)
(* refuses to delete a branch that a worktree has checked out).            *)
(***************************************************************************)
Rerun ==
    /\ pc = "done"
    /\ run < MaxRuns
    /\ run' = run + 1
    /\ pc' = "start"
    /\ prevCls' = cls
    /\ \/ UNCHANGED <<ghAvailable, heads>>
       \/ ghAvailable' = ~ghAvailable /\ heads' = CheckedOut
    /\ tip' = TipsAfter(heads', {})
    /\ before' = [heads |-> heads', dirs |-> dirs, worktrees |-> worktrees,
                  err |-> err]
    /\ baseBranch' = <<>>
    /\ newBranch' = <<>>
    /\ directory' = <<>>
    /\ isPR' = FALSE
    /\ prNumber' = Zero
    /\ matches' = Nil
    /\ startPoint' = <<>>
    /\ err' = "nil"
    /\ branchName' = <<>>
    /\ tier' = "none"
    /\ headRefName' = <<>>
    /\ attempts' = <<>>
    /\ warnings' = {}
    /\ ops' = <<>>
    /\ cls' = NoCls
    /\ UNCHANGED <<command, args, prArgs, addNoHooks, rmForce, rmDeleteBranch,
                   rmNoHooks, initVars, hookVars, remoteHeads, cwd, dirty,
                   untracked, detached, hookFile, remoteURL, dirs, worktrees>>

Next ==
    \/ FindRoot
    \/ ParseArgs
    \/ DetermineDirectory
    \/ TryGhCli
    \/ TryRefspecPrimary
    \/ TryRefspecAlternate
    \/ AddWorktreePR
    \/ AddWorktreeBranch
    \/ ProcessFiles
    \/ RunPostCreateHook
    \/ Rerun

Spec == Init /\ [][Next]_vars

\* one run of add
NextAdd ==
    \/ FindRoot
    \/ ParseArgs
    \/ DetermineDirectory
    \/ TryGhCli
    \/ TryRefspecPrimary
    \/ TryRefspecAlternate
    \/ AddWorktreePR
    \/ AddWorktreeBranch
    \/ ProcessFiles
    \/ RunPostCreateHook

SpecAdd == Init /\ [][NextAdd]_vars

(***************************************************************************)
(* The branch path of add, in repositories with and without the branches   *)
(* a and n, locally and as remote-tracking branches of origin.             *)
(***************************************************************************)
InitBranch ==
    /\ InitRepo({<<"o", "r", "i", "g", "i", "n", "/", "a">>,
                 <<"o", "r", "i", "g", "i", "n", "/", "a", "/", "a">>,
                 <<"a">>, <<"a", "/", "a">>, <<>>},
                {NoRemote},
                {{}, {<<"a">>}, {<<"a">>, NewBranchArg}})
    /\ tip = [b \in heads |-> "ancestor"]
    /\ ghAvailable = FALSE

NextBranch ==
    \/ FindRoot
    \/ ParseArgs
    \/ DetermineDirectory
    \/ AddWorktreeBranch
    \/ ProcessFiles
    \/ RunPostCreateHook

SpecBranch == InitBranch /\ [][NextBranch]_vars

(***************************************************************************)
(* add pr/7 in repositories whose origin remote has any of the URLs of     *)
(* SlugURLs: a host prefix followed by up to MaxParts path tokens.         *)
(***************************************************************************)
SlugHosts ==
    {SSHPrefix, HTTPSPrefix, HTTPPrefix,
     <<"h", "t", "t", "p", "s", ":", "/", "/", "g", "i", "t", "l", "a", "b", ".", "c", "o", "m", "/">>,
     <<"s", "s", "h", ":", "/", "/", "g", "i", "t", "@", "g", "i", "t", "h", "u", "b", ".", "c", "o", "m", "/">>}

SlugTokens == {<<"o">>, <<"/", "r">>, <<"/">>, DotGit}

RECURSIVE SlugPaths(_)
\* the concatenations of at most n tokens
SlugPaths(n) ==
    IF n = 0 THEN {<<>>}
    ELSE LET shorter == SlugPaths(n - 1)
         IN  shorter \cup {s \o t : s \in shorter, t \in SlugTokens}

SlugURLs == {h \o q : h \in SlugHosts, q \in SlugPaths(MaxParts)} \cup {NoRemote}

InitSlug ==
    /\ InitOf({PrPrefix \o <<"7">>}, SlugURLs)
    /\ Len(args) = 1
    /\ addNoHooks = FALSE
    /\ ghAvailable
    /\ heads = {}

NextSlug ==
    \/ FindRoot
    \/ ParseArgs
    \/ DetermineDirectory
    \/ TryGhCli
    \/ TryRefspecPrimary
    \/ TryRefspecAlternate
    \/ AddWorktreePR
    \/ ProcessFiles
    \/ RunPostCreateHook

SpecSlug == InitSlug /\ [][NextSlug]_vars

(***************************************************************************)
(* add of a pull request in repositories whose branches a and n, when      *)
(* they exist, point at any commit: the head of the pull request, one of   *)
(* its ancestors, or a commit git cannot fast-forward from.                *)
(***************************************************************************)
InitFetch ==
    /\ InitRepo({PrPrefix \o <<"7">>, PrPrefix \o <<"7", "/", "a">>},
                {SSHPrefix \o <<"o", "/", "r">> \o DotGit, NoRemote},
                {{}})
    /\ tip \in [heads -> {"pr", "ancestor", "diverged"}]

NextFetch ==
    \/ FindRoot
    \/ ParseArgs
    \/ DetermineDirectory
    \/ TryGhCli
    \/ TryRefspecPrimary
    \/ TryRefspecAlternate
    \/ AddWorktreePR
    \/ ProcessFiles
    \/ RunPostCreateHook

SpecFetch == InitFetch /\ [][NextFetch]_vars

(***************************************************************************)
(* add <branch> for the branch names of BranchNames: up to MaxParts tokens *)
(* of letters of both cases, digits, hyphens, slashes, underscores and     *)
(* characters that a directory name does not keep.                         *)
(***************************************************************************)
RECURSIVE BranchNames(_)
\* the concatenations of at most n tokens
BranchNames(n) ==
    IF n = 0 THEN {<<>>}
    ELSE LET shorter == BranchNames(n - 1)
         IN  shorter \cup {s \o t : s \in shorter,
                                     t \in {<<"a">>, <<"B">>, <<"7">>,
                                            <<"-">>, <<"/">>, <<"_">>,
                                            <<"@">>, <<"é">>, <<"-", "-">>,
                                            <<"/", "_">>, <<".", "a">>}}

InitDir ==
    /\ InitOf(BranchNames(MaxParts), {NoRemote})
    /\ Len(args) = 1
    /\ addNoHooks = FALSE
    /\ ghAvailable = FALSE
    /\ heads = {}

NextDir == FindRoot \/ ParseArgs \/ DetermineDirectory

SpecDir == InitDir /\ [][NextDir]_vars

(***************************************************************************)
(* The `pr <number> [directory]` command (cmd/wtm/pr.go): runPr checks the *)
(* number and calls runAdd with the arguments it builds.                   *)
(***************************************************************************)
NumberTokens ==
    {<<"0">>, <<"7">>, <<"+">>, <<"-">>, <<"a">>, <<"/">>, BigDigits}

RECURSIVE NumberStrings(_)
\* the concatenations of at most n tokens
NumberStrings(n) ==
    IF n = 0 THEN {<<>>}
    ELSE LET shorter == NumberStrings(n - 1)
         IN  shorter \cup {s \o t : s \in shorter, t \in NumberTokens}

\* the argument lists cobra.RangeArgs(1, 2) lets through
PrArgLists ==
    {<<n>> : n \in NumberStrings(MaxParts)}
        \cup {<<n, DirectoryArg>> : n \in NumberStrings(MaxParts)}

InitPr ==
    /\ remoteHeads = {}
    /\ command = "pr"
    /\ prArgs \in PrArgLists
    /\ args = <<>>
    /\ addNoHooks = FALSE
    /\ run = 1
    /\ pc = "pr"
    /\ ghAvailable = FALSE
    /\ remoteURL = NoRemote
    /\ heads = {}
    /\ tip = <<>>
    /\ dirs = {}
    /\ worktrees = {}
    /\ FreshLocals
    /\ prevCls = NoCls
    /\ NoRm
    /\ NoInit

\* runPr, lines 24-38: [err, addArgs]
BuildAddArgs(a) ==
    LET n == Atoi(a[1])
    IN  IF n.err # "nil"
        THEN [err |-> "invalid PR number", addArgs |-> <<>>]
        ELSE IF n.val.neg \/ n.val = Zero
        THEN [err |-> "PR number must be positive", addArgs |-> <<>>]
        ELSE [err |-> "nil",
              addArgs |-> <<PrPrefix \o FormatInt(n.val)>>
                              \o (IF Len(a) > 1 THEN <<a[2]>> ELSE <<>>)]

\* runPr up to its call of runAdd (line 41)
RunPr ==
    /\ pc = "pr"
    /\ LET r == BuildAddArgs(prArgs)
       IN  /\ ops' = Append(ops, <<"Atoi", prArgs[1]>>)
           /\ err' = r.err
           /\ args' = r.addArgs
           /\ pc' = IF r.err = "nil" THEN "start" ELSE "done"
    /\ UNCHANGED <<command, prArgs, addNoHooks, rmForce, rmDeleteBranch,
                   rmNoHooks, initVars, hookVars, remoteHeads, run, treeVars,
                   envVars, localVars, fetchVars, warnings, cls, prevCls>>

NextPr == RunPr \/ FindRoot \/ ParseArgs

SpecPr == InitPr /\ [][NextPr]_vars

(***************************************************************************)
(* The `rm <directory>` command (runRm) and the git functions it calls.    *)
(* rootDir is /r; a path is the list of its components below rootDir, or   *)
(* "/" followed by the components of a path outside rootDir.               *)
(***************************************************************************)
RootDirName == <<"r">>

\* filepath.IsAbs
IsAbs(dir) == dir # <<>> /\ dir[1] = "/"

\* runRm, lines 370-376: directory itself when it is absolute, otherwise
\* filepath.Join(rootDir, directory)
RmWorktreePath(dir) ==
    IF IsAbs(dir)
    THEN LET comps == SplitPath(dir, <<>>)
         IN  IF comps # <<>> /\ comps[1] = RootDirName
             THEN Tail(comps)
             ELSE <<<<"/">>>> \o comps
    ELSE JoinRoot(dir)

RECURSIVE JoinPath(_)
\* the components, each preceded by the separator
JoinPath(comps) ==
    IF comps = <<>> THEN <<>>
    ELSE <<"/">> \o comps[1] \o JoinPath(Tail(comps))

\* filepath.Abs of a path of the model
AbsString(path) ==
    IF path # <<>> /\ path[1] = <<"/">>
    THEN JoinPath(Tail(path))
    ELSE JoinPath(<<RootDirName>> \o path)

\* faulty variant of CurrentlyIn, against which C22 is tested: the prefix
\* test is made without the path separator
CurrentlyInByPrefix(cur, target) ==
    HasPrefix(AbsString(cur), AbsString(target))

\* runRm, line 396: the current directory is the worktree or lies below it
CurrentlyIn(cur, target) ==
    LET currentDirAbs == AbsString(cur)
        worktreePathAbs == AbsString(target)
    IN  \/ currentDirAbs = worktreePathAbs
        \/ HasPrefix(currentDirAbs, worktreePathAbs \o <<"/">>)

\* path is the top directory of a worktree of the repository
IsWorktree(path) == \E w \in worktrees : w.path = path

\* faulty variant of HasUncommittedChanges, against which C19 is tested:
\* changes to tracked files are not reported
HasUncommittedChangesNever(path) ==
    IF IsWorktree(path)
    THEN [changes |-> FALSE, err |-> "nil"]
    ELSE [changes |-> FALSE, err |-> "exit status 128"]

\* git.HasUncommittedChanges: git -C path diff-index --quiet HEAD --
\* exits with 1 when tracked files differ from HEAD; outside a worktree git
\* fails with another status
HasUncommittedChanges(path) ==
    IF IsWorktree(path)
    THEN [changes |-> path \in dirty, err |-> "nil"]
    ELSE [changes |-> FALSE, err |-> "exit status 128"]

\* git.HasUntrackedFiles: git -C path ls-files --others --exclude-standard
HasUntrackedFiles(path) ==
    IF IsWorktree(path)
    THEN [untracked |-> path \in untracked, err |-> "nil"]
    ELSE [untracked |-> FALSE, err |-> "exit status 128"]

\* faulty variant of GetWorktreeBranch, against which C20 is tested: the
\* branch is taken to be named like the directory, filepath.Base(path)
GetWorktreeBranchOfDirectory(path) ==
    IF path = <<>>
    THEN [branch |-> RootDirName, err |-> "nil"]
    ELSE [branch |-> path[Len(path)], err |-> "nil"]

\* faulty variant of GetWorktreeBranch, against which C21 is tested: the
\* answer HEAD that rev-parse gives for a detached HEAD is returned as the
\* name of a branch
GetWorktreeBranchNoDetachedCheck(path) ==
    IF ~IsWorktree(path)
    THEN [branch |-> <<>>, err |-> "failed to get branch name"]
    ELSE IF path \in detached
    THEN [branch |-> <<"H", "E", "A", "D">>, err |-> "nil"]
    ELSE [branch |-> (CHOOSE w \in worktrees : w.path = path).branch,
          err |-> "nil"]

\* git.GetWorktreeBranch: git -C path rev-parse --abbrev-ref HEAD
GetWorktreeBranch(path) ==
    IF ~IsWorktree(path)
    THEN [branch |-> <<>>, err |-> "failed to get branch name"]
    ELSE IF path \in detached
    THEN [branch |-> <<>>, err |-> "worktree is in detached HEAD state"]
    ELSE [branch |-> (CHOOSE w \in worktrees : w.path = path).branch,
          err |-> "nil"]

\* git.RemoveWorktree and git.RemoveWorktreeForce: git worktree remove
\* [--force] path.  Without --force git refuses a worktree with modified or
\* untracked files; accepted is git's answer where the model does not
\* decide it (a locked worktree).
RemoveWorktree(path, force, accepted) ==
    LET ok == /\ accepted
              /\ IsWorktree(path)
              /\ force \/ (path \notin dirty /\ path \notin untracked)
    IN  [ok |-> ok,
         dirs |-> IF ok THEN dirs \ {path} ELSE dirs,
         worktrees |-> IF ok THEN {w \in worktrees : w.path # path}
                       ELSE worktrees,
         call |-> <<IF force THEN "RemoveWorktreeForce" ELSE "RemoveWorktree",
                    path>>]

\* git.DeleteBranch: git branch -D branch, refused for a branch that does
\* not exist or is checked out in a worktree
DeleteBranch(branch) ==
    LET ok == branch \in heads /\ branch \notin CheckedOut
    IN  [ok |-> ok,
         heads |-> IF ok THEN heads \ {branch} ELSE heads,
         call |-> <<"DeleteBranch", branch>>]

\* the command lines of the add that precedes rm
RmAddArgs ==
    {<<PrPrefix \o <<"7">>>>,
     <<PrPrefix \o <<"7", "/", "a", "/", "a">>>>,
     <<<<"a">>>>,
     <<<<"a">>, NewBranchArg, DirectoryArg>>}

\* the directory arguments of rm
RmNames ==
    {<<"p", "r", "-", "7">>, <<"a">>, <<"a", "/", "a">>, DirectoryArg,
     <<"/">> \o RootDirName \o <<"/">> \o DirectoryArg}

InitRm ==
    /\ InitOf(FlowRefs, RemoteURLs)
    /\ args \in RmAddArgs
    /\ addNoHooks = TRUE
    /\ ghAvailable
    /\ remoteURL = SSHPrefix \o <<"o", "/", "r">> \o DotGit
    /\ heads = {}

\* the directory next to path whose name is path's name followed by "x"
Sibling(path) ==
    Take(path, Len(path) - 1) \o <<path[Len(path)] \o <<"x">>>>

\* the current directories rm is started from: the root directory, a
\* worktree, a directory in one, or a directory next to one whose name
\* begins with the worktree's name
WorkingDirs ==
    {<<>>} \cup dirs \cup {d \o <<<<"s">>>> : d \in dirs}
        \cup {Sibling(d) : d \in dirs}

\* After add, files of the worktrees are edited and HEADs detached, and rm
\* is started from one of the directories of WorkingDirs.
StartRm ==
    /\ pc = "done"
    /\ command = "add"
    /\ command' = "rm"
    /\ \E d \in RmNames : args' = <<d>>
    /\ rmForce' \in BOOLEAN
    /\ rmDeleteBranch' \in BOOLEAN
    /\ rmNoHooks' \in BOOLEAN
    /\ cwd' \in WorkingDirs
    /\ dirty' \in SUBSET dirs
    /\ untracked' \in SUBSET dirs
    /\ detached' \in SUBSET dirs
    /\ hookFile' \in BOOLEAN
    /\ before' = [heads |-> heads, dirs |-> dirs, worktrees |-> worktrees,
                  err |-> err]
    /\ pc' = "rm_start"
    /\ baseBranch' = <<>>
    /\ newBranch' = <<>>
    /\ directory' = <<>>
    /\ isPR' = FALSE
    /\ prNumber' = Zero
    /\ matches' = Nil
    /\ startPoint' = <<>>
    /\ err' = "nil"
    /\ branchName' = <<>>
    /\ tier' = "none"
    /\ headRefName' = <<>>
    /\ attempts' = <<>>
    /\ warnings' = {}
    /\ ops' = <<>>
    /\ cls' = NoCls
    /\ UNCHANGED <<prArgs, addNoHooks, initVars, hookVars, remoteHeads, run,
                   envVars, prevCls>>

\* runRm, lines 360-366: directory := args[0]; config.FindRoot
RmFindRoot ==
    /\ pc = "rm_start"
    /\ directory' = args[1]
    /\ \E found \in BOOLEAN :
        /\ ops' = Append(ops, <<"FindRoot">>)
        /\ IF found
           THEN pc' = "rm_path" /\ err' = err
           ELSE pc' = "done" /\ err' = "not in a worktree-managed repository"
    /\ UNCHANGED <<cmdVars, treeVars, envVars, baseBranch, newBranch, isPR,
                   prNumber, matches, startPoint, fetchVars, warnings, cls,
                   prevCls>>

\* runRm, lines 370-399: the worktree path must exist and must not hold
\* the current directory
RmCheckPath ==
    /\ pc = "rm_path"
    /\ LET path == RmWorktreePath(directory)
       IN  IF ~PathExists(path)
           THEN /\ ops' = Append(ops, <<"Stat", path>>)
                /\ pc' = "done"
                /\ err' = "directory does not exist"
           ELSE /\ ops' = ops \o <<<<"Stat", path>>, <<"Getwd">>>>
                /\ IF CurrentlyIn(cwd, path)
                   THEN /\ pc' = "done"
                        /\ err' = "cannot remove worktree you're currently in"
                   ELSE pc' = "rm_safety" /\ err' = err
    /\ UNCHANGED <<cmdVars, treeVars, envVars, localVars, fetchVars, warnings,
                   cls, prevCls>>

\* runRm, lines 401-418: the safety checks that --force skips
RmSafetyChecks ==
    /\ pc = "rm_safety"
    /\ LET path == RmWorktreePath(directory)
           c == HasUncommittedChanges(path)
           u == HasUntrackedFiles(path)
           o1 == <<<<"HasUncommittedChanges", path>>>>
           o2 == o1 \o <<<<"HasUntrackedFiles", path>>>>
       IN  IF rmForce
           THEN pc' = "rm_branch" /\ UNCHANGED <<ops, err, warnings>>
           ELSE IF c.err # "nil"
           THEN /\ ops' = ops \o o1
                /\ pc' = "done"
                /\ err' = "failed to check for uncommitted changes"
                /\ warnings' = warnings
           ELSE IF c.changes
           THEN /\ ops' = ops \o o1
                /\ pc' = "done"
                /\ err' = "worktree has uncommitted changes"
                /\ warnings' = warnings
           ELSE IF u.err # "nil"
           THEN /\ ops' = ops \o o2
                /\ pc' = "done"
                /\ err' = "failed to check for untracked files"
                /\ warnings' = warnings
           ELSE /\ ops' = ops \o o2
                /\ pc' = "rm_branch"
                /\ err' = err
                /\ warnings' = IF u.untracked
                               THEN warnings \cup {"Worktree has untracked files"}
                               ELSE warnings
    /\ UNCHANGED <<cmdVars, treeVars, envVars, localVars, fetchVars, cls,
                   prevCls>>

\* runRm, lines 420-430: the branch checked out in the worktree; the error
\* of GetWorktreeBranch is wrapped (%w) in the error rm returns
RmGetBranch ==
    /\ pc = "rm_branch"
    /\ LET path == RmWorktreePath(directory)
           b == GetWorktreeBranch(path)
       IN  /\ ops' = Append(ops, <<"GetWorktreeBranch", path>>)
           /\ IF b.err = "nil"
              THEN /\ branchName' = b.branch
                   /\ pc' = "rm_hook"
                   /\ UNCHANGED <<err, warnings>>
              ELSE IF ~rmForce
              THEN /\ branchName' = <<>>
                   /\ pc' = "done"
                   /\ err' = "failed to determine branch name: " \o b.err
                   /\ warnings' = warnings
              ELSE /\ branchName' = <<>>
                   /\ pc' = "rm_hook"
                   /\ err' = err
                   /\ warnings' = warnings
                          \cup {"Could not determine branch name",
                                "Skipping hooks and branch deletion"}
    /\ UNCHANGED <<cmdVars, treeVars, envVars, localVars, tier, headRefName,
                   attempts, cls, prevCls>>

\* runRm, lines 432-446: the post-delete hook, run before the removal
RmPostDeleteHook ==
    /\ pc = "rm_hook"
    /\ \E hooked \in BOOLEAN :
        IF ~rmNoHooks /\ branchName # <<>> /\ hookFile
        THEN /\ ops' = Append(ops, <<"RunHook", "post-delete", branchName,
                                     RmWorktreePath(directory)>>)
             /\ warnings' = IF hooked THEN warnings
                            ELSE warnings \cup {"Post-delete hook failed"}
        ELSE UNCHANGED <<ops, warnings>>
    /\ pc' = "rm_remove"
    /\ UNCHANGED <<cmdVars, treeVars, envVars, localVars, err, fetchVars, cls,
                   prevCls>>

\* runRm, lines 448-458: git worktree remove, with --force when rm has it
RmRemoveWorktree ==
    /\ pc = "rm_remove"
    /\ \E accepted \in BOOLEAN :
        LET r == RemoveWorktree(RmWorktreePath(directory), rmForce, accepted)
        IN  /\ ops' = Append(ops, r.call)
            /\ dirs' = r.dirs
            /\ worktrees' = r.worktrees
            /\ IF r.ok
               THEN pc' = "rm_delete" /\ err' = err
               ELSE pc' = "done" /\ err' = "failed to remove worktree"
    /\ UNCHANGED <<cmdVars, treeVars, ghAvailable, remoteURL, heads, tip,
                   localVars,
                   fetchVars, warnings, cls, prevCls>>

\* runRm, lines 460-473: the branch deletion of --delete-branch, and the
\* successful return
RmDeleteBranch ==
    /\ pc = "rm_delete"
    /\ IF rmDeleteBranch /\ branchName # <<>>
       THEN LET r == DeleteBranch(branchName)
            IN  /\ ops' = Append(ops, r.call)
                /\ heads' = r.heads
                /\ tip' = TipsAfter(heads', {})
                /\ warnings' = IF r.ok THEN warnings
                               ELSE warnings \cup {"Failed to delete branch"}
       ELSE /\ UNCHANGED <<ops, heads, tip>>
            /\ warnings' = IF rmDeleteBranch
                           THEN warnings \cup {"Cannot delete branch"}
                           ELSE warnings
    /\ pc' = "done"
    /\ err' = "nil"
    /\ UNCHANGED <<cmdVars, treeVars, ghAvailable, remoteURL, dirs, worktrees,
                   localVars, fetchVars, cls, prevCls>>

\* one add, then one rm
NextRm ==
    \/ FindRoot
    \/ ParseArgs
    \/ DetermineDirectory
    \/ TryGhCli
    \/ TryRefspecPrimary
    \/ TryRefspecAlternate
    \/ AddWorktreePR
    \/ AddWorktreeBranch
    \/ ProcessFiles
    \/ RunPostCreateHook
    \/ StartRm
    \/ RmFindRoot
    \/ RmCheckPath
    \/ RmSafetyChecks
    \/ RmGetBranch
    \/ RmPostDeleteHook
    \/ RmRemoveWorktree
    \/ RmDeleteBranch

SpecRm == InitRm /\ [][NextRm]_vars

(***************************************************************************)
(* The `init <repository> [directory]` command (runInit) and the git       *)
(* functions it calls.  Paths are relative to the directory init is run    *)
(* in; the answers of the file system and of git are inputs.               *)
(***************************************************************************)
Main == <<"m", "a", "i", "n">>

Contains(s, c) == \E i \in 1..Len(s) : s[i] = c

\* filepath.Base
Base(s) ==
    LET comps == SplitPath(s, <<>>)
    IN  IF s = <<>> THEN <<".">>
        ELSE IF comps = <<>> THEN <<"/">>
        ELSE comps[Len(comps)]

\* git.ConvertGitHubFormat
ConvertGitHubFormat(repo) ==
    IF \/ HasPrefix(repo, <<"h", "t", "t", "p", ":", "/", "/">>)
       \/ HasPrefix(repo, <<"h", "t", "t", "p", "s", ":", "/", "/">>)
       \/ HasPrefix(repo, <<"g", "i", "t", "@">>)
    THEN repo
    ELSE IF Contains(repo, "/") /\ ~Contains(repo, ":")
    THEN SSHPrefix \o TrimSuffix(repo, DotGit) \o DotGit
    ELSE repo

\* runInit, lines 47-57: the directory argument, or the repository's base
\* name without .git
InitDirectoryOf(a) ==
    IF Len(a) > 1 /\ a[2] # <<>> THEN a[2]
    ELSE TrimSuffix(Base(a[1]), DotGit)

RefsRemotesOrigin ==
    <<"r", "e", "f", "s", "/", "r", "e", "m", "o", "t", "e", "s", "/">>
        \o OriginPrefix

\* git.GetDefaultBranch: [branch, err].  symHead is the answer of
\* `symbolic-ref --short HEAD` and originHead that of `symbolic-ref
\* refs/remotes/origin/HEAD`, Nil when the command fails.
GetDefaultBranch(symHead, originHead) ==
    LET common == <<Main, <<"m", "a", "s", "t", "e", "r">>,
                    <<"d", "e", "v", "e", "l", "o", "p">>>>
        found == {i \in 1..Len(common) : common[i] \in heads}
    IN  IF symHead # Nil /\ symHead[1] # <<>>
        THEN [branch |-> symHead[1], err |-> "nil"]
        ELSE IF originHead # Nil
        THEN [branch |-> TrimPrefix(originHead[1], RefsRemotesOrigin),
              err |-> "nil"]
        ELSE IF found # {}
        THEN [branch |-> common[CHOOSE i \in found : \A j \in found : i <= j],
              err |-> "nil"]
        ELSE IF heads # {}
        THEN [branch |-> CHOOSE b \in heads : TRUE, err |-> "nil"]
        ELSE [branch |-> <<>>, err |-> "no branches found"]

InitRepos ==
    {<<"o", "/", "r">>, <<"o", "/", "r">> \o DotGit,
     HTTPSPrefix \o <<"o", "/", "r">> \o DotGit, <<"r">>}

\* the branches a cloned repository may hold
ClonedHeads == {{}, {Main}, {<<"a">>}}

InitInit ==
    /\ remoteHeads = {}
    /\ command = "init"
    /\ \E r \in InitRepos : args \in {<<r>>, <<r, DirectoryArg>>}
    /\ prArgs = <<>>
    /\ addNoHooks = FALSE
    /\ initNew \in BOOLEAN
    /\ initNoHooks \in BOOLEAN
    /\ defaultBranch = <<>>
    /\ hookStat = "absent"
    /\ hookContent = <<>>
    /\ hookBranch = <<>>
    /\ hookResult = NoResult
    /\ run = 1
    /\ pc = "init"
    /\ ghAvailable = FALSE
    /\ remoteURL = NoRemote
    /\ heads = {}
    /\ tip = <<>>
    /\ dirs \in {{}, {<<<<"r">>>>}, {<<DirectoryArg>>}}
    /\ worktrees = {}
    /\ FreshLocals
    /\ prevCls = NoCls
    /\ NoRm

\* runInit, lines 47-75: the directory must not exist; it is created with
\* its .worktree/files directory
InitDirectory ==
    /\ pc = "init"
    /\ LET dir == InitDirectoryOf(args)
           path == JoinRoot(dir)
       IN  /\ directory' = dir
           /\ IF PathExists(path)
              THEN /\ ops' = Append(ops, <<"Stat", path>>)
                   /\ pc' = "done"
                   /\ err' = "directory already exists"
                   /\ dirs' = dirs
              ELSE \E made \in BOOLEAN, madeFiles \in BOOLEAN :
                       /\ ops' = ops \o <<<<"Stat", path>>, <<"MkdirAll", path>>>>
                                   \o (IF made
                                       THEN <<<<"MkdirAll",
                                                path \o <<<<".worktree">>,
                                                          <<"files">>>>>>>>
                                       ELSE <<>>)
                       /\ dirs' = IF made THEN dirs \cup {path} ELSE dirs
                       /\ IF ~made
                          THEN pc' = "done" /\ err' = "failed to create directory"
                          ELSE IF ~madeFiles
                          THEN /\ pc' = "done"
                               /\ err' = "failed to create .worktree directory"
                          ELSE pc' = "init_bare" /\ err' = err
    /\ UNCHANGED <<cmdVars, treeVars, ghAvailable, remoteURL, heads, tip,
                   worktrees,
                   baseBranch, newBranch, isPR, prNumber, matches, startPoint,
                   fetchVars, warnings, cls, prevCls>>

\* runInit, lines 79-100: the bare repository is created or cloned
InitBareRepository ==
    /\ pc = "init_bare"
    /\ IF initNew
       THEN \E inited \in BOOLEAN, created \in BOOLEAN :
                /\ ops' = ops \o <<<<"InitBare">>>>
                            \o (IF inited
                                THEN <<<<"CreateInitialBranch", Main>>>>
                                ELSE <<>>)
                /\ heads' = IF inited /\ created THEN {Main} ELSE heads
                /\ tip' = TipsAfter(heads', {})
                /\ IF ~inited
                   THEN /\ pc' = "done"
                        /\ err' = "failed to initialize bare repository"
                   ELSE IF ~created
                   THEN /\ pc' = "done"
                        /\ err' = "failed to create initial branch"
                   ELSE pc' = "init_worktree" /\ err' = err
       ELSE \E cloned \in BOOLEAN, branches \in ClonedHeads :
                /\ ops' = Append(ops, <<"CloneBare",
                                        ConvertGitHubFormat(args[1])>>)
                /\ heads' = IF cloned THEN branches ELSE heads
                /\ tip' = TipsAfter(heads', {})
                /\ IF cloned
                   THEN pc' = "init_worktree" /\ err' = err
                   ELSE pc' = "done" /\ err' = "failed to clone repository"
    /\ UNCHANGED <<cmdVars, treeVars, ghAvailable, remoteURL, dirs, worktrees,
                   localVars, fetchVars, warnings, cls, prevCls>>

\* runInit, line 109: worktreePath := filepath.Join(directory, defaultBranch)
InitWorktreePath(branch) == JoinRoot(directory) \o SplitPath(branch, <<>>)

\* runInit, lines 102-114: the worktree of the default branch
InitDefaultWorktree ==
    /\ pc = "init_worktree"
    /\ \E symHead \in {Nil, <<<<>>>>, <<Main>>},
          originHead \in {Nil, <<RefsRemotesOrigin \o <<"a">>>>},
          accepted \in BOOLEAN :
        LET d == GetDefaultBranch(symHead, originHead)
            r == AddWorktree(d.branch, InitWorktreePath(d.branch), <<>>,
                             accepted)
        IN  IF d.err # "nil"
            THEN /\ ops' = Append(ops, <<"GetDefaultBranch">>)
                 /\ pc' = "done"
                 /\ err' = "failed to get default branch"
                 /\ UNCHANGED <<defaultBranch, heads, tip, dirs, worktrees>>
            ELSE /\ ops' = ops \o <<<<"GetDefaultBranch">>, r.call>>
                 /\ defaultBranch' = d.branch
                 /\ heads' = r.heads
                 /\ tip' = TipsAfter(heads', {})
                 /\ dirs' = r.dirs
                 /\ worktrees' = r.worktrees
                 /\ IF r.ok
                    THEN pc' = "init_files" /\ err' = err
                    ELSE pc' = "done" /\ err' = "failed to create worktree"
    /\ UNCHANGED <<command, args, prArgs, addNoHooks, rmForce, rmDeleteBranch,
                   rmNoHooks, initNew, initNoHooks, hookVars, remoteHeads, run,
                   treeVars,
                   ghAvailable, remoteURL, localVars, fetchVars, warnings, cls,
                   prevCls>>

\* runInit, lines 116-128: the files of .worktree/files
InitProcessFiles ==
    /\ pc = "init_files"
    /\ \E filesDir \in BOOLEAN, processed \in BOOLEAN :
        IF filesDir
        THEN /\ ops' = Append(ops, <<"ProcessTemplates", defaultBranch,
                                     InitWorktreePath(defaultBranch)>>)
             /\ warnings' = IF processed THEN warnings
                            ELSE warnings \cup {"Failed to process files"}
        ELSE UNCHANGED <<ops, warnings>>
    /\ pc' = "init_hook"
    /\ UNCHANGED <<cmdVars, treeVars, envVars, localVars, err, fetchVars,
                   cls, prevCls>>

\* runInit, lines 130-143: the post-create hook and the successful return
InitPostCreateHook ==
    /\ pc = "init_hook"
    /\ \E hooked \in BOOLEAN :
        IF ~initNoHooks
        THEN /\ ops' = Append(ops, <<"RunHookByName", "post-create",
                                     defaultBranch,
                                     InitWorktreePath(defaultBranch)>>)
             /\ warnings' = IF hooked THEN warnings
                            ELSE warnings \cup {"Post-create hook failed"}
        ELSE UNCHANGED <<ops, warnings>>
    /\ pc' = "done"
    /\ err' = "nil"
    /\ UNCHANGED <<cmdVars, treeVars, envVars, localVars, fetchVars, cls,
                   prevCls>>

NextInit ==
    \/ InitDirectory
    \/ InitBareRepository
    \/ InitDefaultWorktree
    \/ InitProcessFiles
    \/ InitPostCreateHook

\* add with or without --no-hooks, to be followed by rm
InitSession ==
    /\ InitOf(FlowRefs, RemoteURLs)
    /\ args \in RmAddArgs
    /\ ghAvailable
    /\ remoteURL = SSHPrefix \o <<"o", "/", "r">> \o DotGit
    /\ heads = {}

\* the commands that process files and run hooks: a session of add and rm,
\* or one run of init
InitCommands == InitSession \/ InitInit

NextCommands == NextRm \/ NextInit

SpecCommands == InitCommands /\ [][NextCommands]_vars

(***************************************************************************)
(* hook.RunHook (internal/hook/hook.go) on its own.  The hook file is a    *)
(* text/template; in the model a template action is one element of the     *)
(* content: BranchAction stands for {{.Branch}}, OpenAction for an action   *)
(* that is not closed (a parse error), and FieldAction for a field the data *)
(* does not have (an execution error).                                      *)
(***************************************************************************)
BranchAction == "{{.Branch}}"

OpenAction == "{{"

FieldAction == "{{.X}}"

Shebang == <<"#", "!">>

RECURSIVE ExecuteTemplate(_, _)
\* template.Parse and Execute: [out, err]
ExecuteTemplate(content, branch) ==
    IF \E i \in 1..Len(content) : content[i] = OpenAction
    THEN [out |-> <<>>, err |-> "failed to parse template"]
    ELSE IF content = <<>> THEN [out |-> <<>>, err |-> "nil"]
    ELSE IF content[1] = FieldAction
    THEN [out |-> <<>>, err |-> "failed to execute template"]
    ELSE LET rest == ExecuteTemplate(Tail(content), branch)
             first == IF content[1] = BranchAction THEN branch
                      ELSE <<content[1]>>
         IN  IF rest.err # "nil" THEN rest
             ELSE [out |-> first \o rest.out, err |-> "nil"]

\* position of the first line break of s after position 2, or 0
ShebangEnd(s) ==
    IF \E i \in 3..Len(s) : s[i] = "\n"
    THEN CHOOSE i \in 3..Len(s) : s[i] = "\n" /\ \A j \in 3..(i - 1) : s[j] # "\n"
    ELSE 0

\* faulty variant of ExtractShebang, against which C24 is tested: content
\* without a shebang line is handed to sh
ExtractShebangOrSh(content) ==
    IF Len(content) < 2 \/ Take(content, 2) # Shebang
    THEN [interpreter |-> <<"s", "h">>, remaining |-> content]
    ELSE LET end == ShebangEnd(content)
         IN  IF end = 0
             THEN [interpreter |-> Drop(content, 2), remaining |-> <<>>]
             ELSE [interpreter |-> SubSeq(content, 3, end - 1),
                   remaining |-> Drop(content, end)]

\* hook.ExtractShebang: [interpreter, remaining]
ExtractShebang(content) ==
    IF Len(content) < 2 \/ Take(content, 2) # Shebang
    THEN [interpreter |-> <<>>, remaining |-> content]
    ELSE LET end == ShebangEnd(content)
         IN  IF end = 0
             THEN [interpreter |-> Drop(content, 2), remaining |-> <<>>]
             ELSE [interpreter |-> SubSeq(content, 3, end - 1),
                   remaining |-> Drop(content, end)]

RECURSIVE SplitFields(_, _)
\* fields of s separated by white space, cur being the field in progress
SplitFields(s, cur) ==
    IF s = <<>> THEN (IF cur = <<>> THEN <<>> ELSE <<cur>>)
    ELSE IF s[1] \in {" ", "\n"}
         THEN (IF cur = <<>> THEN <<>> ELSE <<cur>>) \o SplitFields(Tail(s), <<>>)
         ELSE SplitFields(Tail(s), cur \o <<s[1]>>)

\* strings.Fields
Fields(s) == SplitFields(s, <<>>)

\* hook.RunHook: [returned, err, calls, processed] for the file system's
\* answers stat (what os.Stat finds), readable, created (os.CreateTemp and
\* the write succeed) and exited (the interpreter exits with status 0);
\* processed holds the output of the template once it has been executed
RunHook(stat, content, branch, readable, created, exited) ==
    LET ret(e, calls, processed) ==
            [returned |-> TRUE, err |-> e, calls |-> calls,
             processed |-> processed]
        c1 == <<<<"Stat">>>>
        c2 == c1 \o <<<<"ReadFile">>>>
        t == ExecuteTemplate(content, branch)
        sh == ExtractShebang(t.out)
        c3 == c2 \o <<<<"CreateTemp">>>>
        interpreterParts == Fields(sh.interpreter)
        c4 == c3 \o <<<<"Run", interpreterParts, sh.remaining>>>>
    IN  IF stat = "absent" THEN ret("nil", c1, <<>>)
        ELSE IF stat = "error" THEN ret("stat failed", c1, <<>>)
        ELSE IF stat = "plain" THEN ret("nil", c1, <<>>)
        ELSE IF ~readable THEN ret("failed to read hook script", c2, <<>>)
        ELSE IF t.err # "nil" THEN ret(t.err, c2, <<>>)
        ELSE IF sh.interpreter = <<>>
        THEN ret("no shebang found in hook script", c2, <<t.out>>)
        ELSE IF ~created THEN ret("failed to create temp file", c3, <<t.out>>)
        ELSE IF interpreterParts = <<>>
        THEN ret("panic: index out of range", c3, <<t.out>>)
        ELSE IF ~exited THEN ret("exit status 1", c4, <<t.out>>)
        ELSE ret("nil", c4, <<t.out>>)

RECURSIVE HookContents(_)
\* the concatenations of at most n tokens
HookContents(n) ==
    IF n = 0 THEN {<<>>}
    ELSE LET shorter == HookContents(n - 1)
         IN  shorter \cup {s \o t : s \in shorter,
                                     t \in {Shebang, <<"#">>, <<"s">>,
                                            <<" ">>, <<"\n">>,
                                            <<BranchAction>>, <<OpenAction>>,
                                            <<FieldAction>>}}

InitHook ==
    /\ remoteHeads = {}
    /\ command = "hook"
    /\ args = <<>>
    /\ prArgs = <<>>
    /\ addNoHooks = FALSE
    /\ initNew = FALSE
    /\ initNoHooks = FALSE
    /\ defaultBranch = <<>>
    /\ hookStat \in {"absent", "error", "plain", "executable"}
    /\ hookContent \in HookContents(MaxParts)
    /\ hookBranch \in {<<"a">>, <<"#", "!", "s">>}
    /\ hookResult = NoResult
    /\ run = 1
    /\ pc = "run_hook"
    /\ ghAvailable = FALSE
    /\ remoteURL = NoRemote
    /\ heads = {}
    /\ tip = <<>>
    /\ dirs = {}
    /\ worktrees = {}
    /\ FreshLocals
    /\ prevCls = NoCls
    /\ NoRm

\* one call of RunHook
CallRunHook ==
    /\ pc = "run_hook"
    /\ \E readable \in BOOLEAN, created \in BOOLEAN, exited \in BOOLEAN :
        hookResult' = RunHook(hookStat, hookContent, hookBranch, readable,
                              created, exited)
    /\ pc' = "done"
    /\ UNCHANGED <<command, args, prArgs, addNoHooks, rmForce, rmDeleteBranch,
                   rmNoHooks, initVars, hookStat, hookContent, hookBranch,
                   remoteHeads, run,
                   treeVars, envVars, localVars, err, fetchVars, warnings, ops,
                   cls, prevCls>>

NextHook == CallRunHook

SpecHook == InitHook /\ [][NextHook]_vars

(***************************************************************************)
(* Vocabulary of the properties.                                           *)
(***************************************************************************)
\* the base reference handed to the command
Ref == args[1]

\* no explicit new-branch argument: the reference itself is normalized
NoNewBranchArg == Len(args) < 2 \/ args[2] = <<>>

\* the current run has parsed its reference
Classified == cls.set

\* the part of a pr/ reference after the prefix
AfterPr == Drop(Ref, Len(PrPrefix))

\* position of the first "/" of s, or Len(s) + 1
FirstSlash(s) ==
    IF \E i \in 1..Len(s) : s[i] = "/"
    THEN CHOOSE i \in 1..Len(s) : s[i] = "/" /\ \A j \in 1..(i - 1) : s[j] # "/"
    ELSE Len(s) + 1

\* the <digits> and <name> of a reference pr/<digits>[/<name>]
RefDigits == Take(AfterPr, FirstSlash(AfterPr) - 1)

RefName == Drop(AfterPr, FirstSlash(AfterPr))

AllDigits(s) == s # <<>> /\ \A i \in 1..Len(s) : s[i] \in Digits

\* the decimal numeral s without its leading zeros
RECURSIVE Canonical(_)
Canonical(s) == IF Len(s) > 1 /\ s[1] = "0" THEN Canonical(Tail(s)) ELSE s

\* Ref is pr/<digits> or pr/<digits>/<name>, <name> non-empty
PRShaped ==
    /\ HasPrefix(Ref, PrPrefix)
    /\ AllDigits(RefDigits)
    /\ \/ AfterPr = RefDigits
       \/ RefName # <<>>

OpNames == {ops[i][1] : i \in 1..Len(ops)}

\* calls that read or change the repository or create the worktree
RepositoryOps ==
    {"Stat", "LookPath", "RemoteGetURL", "GhPrView", "FetchRef", "Fetch",
     "LocalBranchExists", "AddWorktree"}

(***************************************************************************)
(* Properties of the reference parsing, checked under SpecParse.           *)
(***************************************************************************)
\* C1: a reference pr/<digits> whose digits denote zero (pr/0, pr/00) is
\* rejected with the invalid-PR-syntax error: the run ends there, without a
\* PullRequest of number 0 and without any fetch or worktree creation.
C1_ZeroPRRejected ==
    (/\ Classified
     /\ HasPrefix(Ref, PrPrefix)
     /\ AllDigits(AfterPr)
     /\ Canonical(AfterPr) = <<"0">>)
        => /\ cls.err = "invalid PR syntax"
           /\ pc = "done"
           /\ OpNames \cap RepositoryOps = {}

\* C2: pr/ is a reserved prefix.  Every reference that starts with pr/ is
\* either parsed as a pull request or rejected with the invalid-PR-syntax
\* error; it never reaches normalizeRemoteBranch and the branch path.
C2_PrPrefixReserved ==
    (Classified /\ HasPrefix(Ref, PrPrefix))
        => /\ \/ cls.isPR /\ cls.err = "nil" /\ matches # Nil /\ pc = "dir"
              \/ cls.err = "invalid PR syntax" /\ pc = "done"
           /\ "normalizeRemoteBranch" \notin OpNames
           /\ cls.localName = <<>>
           /\ cls.startPoint = <<>>

\* C2 witness: a pr/ reference with a negative number has been rejected
C2_Witness ==
    /\ Classified
    /\ Ref = PrPrefix \o <<"-", "7">>
    /\ cls.err = "invalid PR syntax"
    /\ pc = "done"

\* C3: for every positive decimal <n> and every empty or slash-free <name>
\* (here: also free of line breaks), pr/<n> and pr/<n>/<name> parse as a
\* pull request whose number is exactly <n> and whose hint is exactly <name>.
C3_NumberExact ==
    (/\ Classified
     /\ PRShaped
     /\ Canonical(RefDigits) # <<"0">>
     /\ \A i \in 1..Len(RefName) : RefName[i] \notin {"/", "\n"})
        => /\ cls.isPR
           /\ cls.err = "nil"
           /\ FormatInt(cls.prNumber) = Canonical(RefDigits)
           /\ cls.hint = RefName

\* C4: pr/<digits>/<name> is a pull request only when <name> has no slash;
\* a reference with a further slash after pr/<digits>/ (pr/42/a/b) is
\* rejected as malformed PR syntax.
C4_SlashNameRejected ==
    (/\ Classified
     /\ PRShaped
     /\ \E i \in 1..Len(RefName) : RefName[i] = "/")
        => /\ cls.err = "invalid PR syntax"
           /\ pc = "done"

\* C5: for every reference origin/X with X non-empty (slashes allowed in X)
\* the classifier returns localName = X and startPoint = the reference.
C5_OriginDecomposed ==
    (/\ Classified
     /\ NoNewBranchArg
     /\ HasPrefix(Ref, OriginPrefix)
     /\ Len(Ref) > Len(OriginPrefix))
        => /\ ~cls.isPR
           /\ cls.err = "nil"
           /\ OriginPrefix \o cls.localName = Ref
           /\ cls.startPoint = Ref
           /\ newBranch = cls.localName
           /\ startPoint = cls.startPoint

\* C5 witness: origin/a/a has been decomposed into a/a and origin/a/a
C5_Witness ==
    /\ Classified
    /\ NoNewBranchArg
    /\ Ref = OriginPrefix \o <<"a", "/", "a">>
    /\ cls.localName = <<"a", "/", "a">>
    /\ pc = "dir"

\* C6: every non-empty reference that starts with neither pr/ nor origin/
\* (a branch, a tag, another remote's prefix) is returned verbatim as
\* localName with an empty startPoint.
C6_DefaultVerbatim ==
    (/\ Classified
     /\ NoNewBranchArg
     /\ Ref # <<>>
     /\ ~HasPrefix(Ref, PrPrefix)
     /\ ~HasPrefix(Ref, OriginPrefix))
        => /\ ~cls.isPR
           /\ cls.err = "nil"
           /\ cls.localName = Ref
           /\ cls.startPoint = <<>>
           /\ newBranch = Ref
           /\ startPoint = <<>>

\* C6 witness: a reference with another remote's shape, a/a, passed through
C6_Witness ==
    /\ Classified
    /\ NoNewBranchArg
    /\ Ref = <<"a", "/", "a">>
    /\ cls.localName = <<"a", "/", "a">>
    /\ pc = "dir"

\* C7: the bare token origin/ takes the default case (localName = origin/,
\* empty startPoint), and no non-empty reference gets an empty localName.
C7_BareOriginVerbatim ==
    (Classified /\ NoNewBranchArg /\ ~cls.isPR /\ Ref # <<>>)
        => /\ cls.localName # <<>>
           /\ Ref = OriginPrefix
                => cls.localName = OriginPrefix /\ cls.startPoint = <<>>

\* C8: an empty reference is rejected at classification, whatever the
\* other arguments are, before any repository query or worktree creation.
C8_EmptyRefRejected ==
    (Classified /\ Ref = <<>>)
        => /\ cls.err # "nil"
           /\ pc = "done"
           /\ OpNames \cap RepositoryOps = {}

(***************************************************************************)
(* Properties of the whole command, checked under Spec.                    *)
(***************************************************************************)
\* C9: classification is a pure function of the reference string.  Run
\* again on the same arguments in another repository state (other local
\* branches, gh present or absent) it yields the same kind, number, hint,
\* localName and startPoint, and while classifying the run has made no
\* call that queries the repository.
C9_ClassifyPure ==
    /\ (Classified /\ prevCls.set)
          => /\ cls.isPR = prevCls.isPR
             /\ cls.prNumber = prevCls.prNumber
             /\ cls.hint = prevCls.hint
             /\ cls.localName = prevCls.localName
             /\ cls.startPoint = prevCls.startPoint
             /\ cls.err = prevCls.err
    /\ (Classified /\ (pc = "dir" \/ cls.err # "nil"))
          => OpNames \cap RepositoryOps = {}

\* C9 witness: the second run has classified an origin/ reference with
\* different local branches and a different gh availability than the first
C9_Witness ==
    /\ Classified
    /\ prevCls.set
    /\ pc = "dir"
    /\ HasPrefix(Ref, OriginPrefix)
    /\ NoNewBranchArg
    /\ cls.heads # prevCls.heads
    /\ cls.gh # prevCls.gh

\* C10: when gh is available and every step of the gh tier succeeds, the
\* branch FetchPR returns is the head branch name gh reported, whatever
\* the desired name was; that branch is the one fetched and checked out.
C10_GhTierNamesHead ==
    tier = "GhCli"
        => /\ branchName = headRefName
           /\ headRefName # <<>>
           /\ ghAvailable
           /\ <<"FetchRef", HeadRefspec(prNumber, headRefName)>>
                  \in {ops[i] : i \in 1..Len(ops)}
           /\ "Fetch" \notin OpNames
           /\ pc \in {"files", "hook"} => newBranch = headRefName

\* C10 witness: the gh tier has succeeded with a head branch name that
\* differs from the desired name, and the worktree has been created
C10_Witness ==
    /\ tier = "GhCli"
    /\ pc = "files"
    /\ headRefName = <<"h">>
    /\ directory = <<"a">>
    /\ newBranch = <<"h">>

(***************************************************************************)
(* Properties of pr.FetchPR as runAdd calls it, checked under SpecAdd.     *)
(* The desired name handed to FetchPR is runAdd's directory.               *)
(***************************************************************************)
FetchPcs == {"fetch_gh", "fetch_primary", "fetch_alternate"}

\* FetchPR has been called and has returned
FetchReturned == attempts # <<>> /\ pc \notin FetchPcs

\* some tier of the call succeeded
SomeTierSucceeded == \E i \in 1..Len(attempts) : attempts[i].err = "nil"

\* number of calls in ops that satisfy Q
CountOps(Q(_)) == Cardinality({i \in 1..Len(ops) : Q(ops[i])})

\* positions in ops of the calls that satisfy Q
OpsAt(Q(_)) == {i \in 1..Len(ops) : Q(ops[i])}

IsGhOp(o) == o[1] \in {"LookPath", "RemoteGetURL", "GhPrView", "FetchRef"}

IsPrimaryFetch(o) == o = <<"Fetch", HeadRefspec(prNumber, directory)>>

IsAlternateFetch(o) == o = <<"Fetch", ForceRefspec(prNumber, directory)>>

\* C11: whenever FetchPR succeeds through a refspec attempt (the gh tier
\* skipped or failed, the primary or else the alternate fetch succeeded),
\* the branch name it returns is exactly the desired name it was given.
C11_RefspecNamesDesired ==
    tier = "Refspec"
        => /\ branchName = directory
           /\ attempts[1].tier = "GhCli"
           /\ attempts[1].err # "nil"
           /\ \E i \in 2..Len(attempts) :
                  /\ attempts[i].tier \in {"RefspecPrimary", "RefspecAlternate"}
                  /\ attempts[i].err = "nil"
           /\ pc \in {"files", "hook"} => newBranch = directory

\* C11 witness: the gh tier learned the head branch name h but its fetch
\* failed, the primary refspec succeeded, and the branch is the desired a
C11_Witness ==
    /\ tier = "Refspec"
    /\ pc = "files"
    /\ attempts[1].err = "git fetch failed"
    /\ headRefName = <<"h">>
    /\ directory = <<"a">>
    /\ branchName = <<"a">>

\* C12: within one FetchPR call the tiers are attempted in the order gh,
\* primary refspec, alternate refspec, each at most once; a later tier is
\* attempted only after every earlier one failed (gh counts as failed when
\* it is not on the path, and then nothing else of the gh tier runs), and
\* no tier is attempted after one succeeded.
C12_TiersInOrderOnce ==
    /\ Len(attempts) <= 3
    /\ \A i \in 1..Len(attempts) :
           /\ attempts[i].tier = <<"GhCli", "RefspecPrimary", "RefspecAlternate">>[i]
           /\ i < Len(attempts) => attempts[i].err # "nil"
    /\ (attempts # <<>> /\ attempts[Len(attempts)].err = "nil")
           => pc \notin FetchPcs
    /\ CountOps(LAMBDA o : o[1] = "LookPath") <= 1
    /\ CountOps(LAMBDA o : o[1] = "GhPrView") <= 1
    /\ CountOps(LAMBDA o : o[1] = "FetchRef") <= 1
    /\ CountOps(IsPrimaryFetch) <= 1
    /\ CountOps(IsAlternateFetch) <= 1
    /\ \A i \in OpsAt(IsGhOp), j \in OpsAt(IsPrimaryFetch) : i < j
    /\ \A i \in OpsAt(IsPrimaryFetch), j \in OpsAt(IsAlternateFetch) : i < j
    /\ OpsAt(IsAlternateFetch) # {} => OpsAt(IsPrimaryFetch) # {}
    /\ OpsAt(IsPrimaryFetch) # {} => OpsAt(LAMBDA o : o[1] = "LookPath") # {}
    /\ tier = "GhCli" => "Fetch" \notin OpNames
    /\ (attempts # <<>> /\ ~ghAvailable)
           => OpNames \cap {"RemoteGetURL", "GhPrView", "FetchRef"} = {}

\* C12 witness: gh is not on the path, the primary refspec failed, the
\* alternate one succeeded and the run went on to create the worktree
C12_Witness ==
    /\ pc = "add_pr"
    /\ Len(attempts) = 3
    /\ attempts[1].err = "gh CLI not found"
    /\ attempts[2].err # "nil"
    /\ attempts[3].err = "nil"

\* C13: FetchPR returns an error if and only if no tier succeeded: the gh
\* tier was skipped or failed and both refspec fetches failed.  A failure
\* inside the gh tier, or of the primary refspec alone, is never returned.
C13_ErrorIffExhausted ==
    /\ FetchReturned
           => /\ (err = "failed to fetch PR")
                     <=> (Len(attempts) = 3 /\ ~SomeTierSucceeded)
              /\ SomeTierSucceeded <=> tier # "none"
              /\ err = "failed to fetch PR" => pc = "done"
    /\ pc \in FetchPcs => err = "nil"

\* C13 witness: the gh tier failed at its fetch by head name and the primary
\* refspec failed, yet FetchPR returned the alternate refspec's success
C13_Witness ==
    /\ FetchReturned
    /\ pc = "add_pr"
    /\ err = "nil"
    /\ attempts[1].err = "git fetch failed"
    /\ Len(attempts) = 3

\* C14: whenever FetchPR returns success, the branch name it returns is not
\* empty and a local branch of exactly that name exists in the bare
\* repository at that moment, whichever tier produced the name.
C14_ReturnedBranchExists ==
    pc = "add_pr"
        => /\ tier \in {"GhCli", "Refspec"}
           /\ branchName # <<>>
           /\ branchName \in heads

\* C14 witness: the gh tier returned the head branch h, which did not exist
\* before and differs from the desired name
C14_Witness ==
    /\ pc = "add_pr"
    /\ tier = "GhCli"
    /\ branchName = <<"h">>
    /\ directory = <<"a">>
    /\ heads = {<<"h">>}

\* C16: when the metadata query succeeds but reports an empty head branch
\* name, the gh tier fails without issuing any fetch and resolution goes
\* on with the primary refspec; the gh tier never returns an empty name.
C16_EmptyHeadFailsGhTier ==
    /\ (/\ attempts # <<>>
        /\ attempts[1].queried
        /\ attempts[1].view.ok
        /\ attempts[1].view.json
        /\ attempts[1].view.head = <<>>)
           => /\ attempts[1].err # "nil"
              /\ "FetchRef" \notin OpNames
              /\ tier # "GhCli"
              /\ pc = "fetch_primary"
                     \/ (Len(attempts) >= 2 /\ CountOps(IsPrimaryFetch) = 1)
    /\ tier = "GhCli" => branchName # <<>>

\* C16 witness: gh reported an empty head branch name and the primary
\* refspec then fetched the pull request into the desired name
C16_Witness ==
    /\ Len(attempts) = 2
    /\ attempts[1].err = "PR metadata missing headRefName"
    /\ attempts[2].err = "nil"
    /\ tier = "Refspec"
    /\ pc = "add_pr"

(***************************************************************************)
(* Properties of the PR path of add, checked under SpecAdd.                *)
(***************************************************************************)
\* the decimal numeral s denotes a value of Go's int
InIntRange(s) == Atoi(s).err = "nil"

\* the argument of add at position i, or "" when absent
Arg(i) == IF Len(args) >= i THEN args[i] ELSE <<>>

OwnerRepo(url) ==
    IF \E h \in {SSHPrefix, HTTPSPrefix, HTTPPrefix} : HasPrefix(url, h)
    THEN LET h == CHOOSE h \in {SSHPrefix, HTTPSPrefix, HTTPPrefix} :
                      HasPrefix(url, h)
         IN  <<TrimSuffix(Drop(url, Len(h)), DotGit)>>
    ELSE Nil

\* url is <prefix><owner>/<repo>[.git], owner and repo without slash and
\* not empty
SlugShaped(url) ==
    /\ OwnerRepo(url) # Nil
    /\ LET q == OwnerRepo(url)[1]
           k == FirstSlash(q)
       IN  /\ k > 1
           /\ k < Len(q)
           /\ \A i \in (k + 1)..Len(q) : q[i] # "/"

\* C15: slug resolution succeeds only for remote URLs of the shapes
\* git@github.com:<owner>/<repo>[.git], https://github.com/<owner>/<repo>
\* [.git] and http://github.com/<owner>/<repo>[.git], with the result
\* <owner>/<repo>; for every other URL (other host, owner or repo missing,
\* further path segments) it fails and so does the gh tier, before gh is
\* asked about the pull request.
C15_SlugOnlyForGithubShapes ==
    /\ \A i \in 1..Len(ops) :
           ops[i][1] = "GhPrView"
               => /\ SlugShaped(remoteURL)
                  /\ ops[i][3] = OwnerRepo(remoteURL)[1]
    /\ (attempts # <<>> /\ ghAvailable /\ ~SlugShaped(remoteURL))
           => attempts[1].err = "failed to determine repository"

(***************************************************************************)
(* Properties of the pr command, checked under SpecPr.                     *)
(***************************************************************************)
\* the arguments of the add invocation that `pr <number> [directory]` is
\* said to be equivalent to: add pr/<number> [directory]
EquivalentAddArgs == <<PrPrefix \o prArgs[1]>> \o Tail(prArgs)

\* C17: pr <number> [directory] is equivalent to add pr/<number>
\* [directory]: for every value of the number argument both fail, or both
\* go on as the same pull request into the same directory.
C17_PrEquivalentToAdd ==
    LET p == ParseReference(EquivalentAddArgs)
    IN  /\ (command = "pr" /\ pc = "done" /\ "FindRoot" \notin OpNames)
               => p.failed
        /\ (command = "pr" /\ Classified)
               => /\ p.failed <=> cls.err # "nil"
                  /\ p.isPR = isPR
                  /\ p.prNumber = prNumber
                  /\ p.directory = directory
                  /\ p.newBranch = newBranch

(***************************************************************************)
(* Properties of the rm command, checked under SpecRm.                     *)
(***************************************************************************)
\* the worktree path rm was asked to remove
RmTarget == RmWorktreePath(args[1])

\* rm was started on a worktree that existed
TargetWasWorktree == \E w \in before.worktrees : w.path = RmTarget

\* the branch that was checked out in the worktree rm was started on
TargetBranch == (CHOOSE w \in before.worktrees : w.path = RmTarget).branch

\* C19: rm without --force on a worktree with uncommitted changes fails
\* and leaves everything as it was: the worktree directory still exists,
\* no hook has run, no branch was deleted.  Run in a managed repository
\* from outside the worktree, its error is the uncommitted-changes error.
C19_DirtyRmRefused ==
    (/\ command = "rm"
     /\ pc = "done"
     /\ ~rmForce
     /\ TargetWasWorktree
     /\ RmTarget \in dirty)
        => /\ err # "nil"
           /\ heads = before.heads
           /\ dirs = before.dirs
           /\ worktrees = before.worktrees
           /\ RmTarget \in dirs
           /\ OpNames \cap {"RunHook", "RemoveWorktree", "RemoveWorktreeForce",
                           "DeleteBranch"} = {}
           /\ "HasUncommittedChanges" \in OpNames
                  => err = "worktree has uncommitted changes"
           /\ (/\ err # "not in a worktree-managed repository"
               /\ ~CurrentlyIn(cwd, RmTarget))
                  => err = "worktree has uncommitted changes"

\* C19 witness: rm --delete-branch with a post-delete hook installed was
\* refused for the uncommitted changes in the worktree
C19_Witness ==
    /\ command = "rm"
    /\ pc = "done"
    /\ ~rmForce
    /\ rmDeleteBranch
    /\ ~rmNoHooks
    /\ hookFile
    /\ TargetWasWorktree
    /\ RmTarget \in dirty
    /\ err = "worktree has uncommitted changes"

\* C20: rm --delete-branch deletes the branch that is checked out in the
\* worktree, never a branch named after the directory: after add created a
\* worktree of branch B in directory D and rm D --delete-branch succeeded,
\* B no longer exists and no other branch was touched.
C20_DeletesCheckedOutBranch ==
    (/\ command = "rm"
     /\ pc = "done"
     /\ err = "nil"
     /\ rmDeleteBranch
     /\ TargetWasWorktree
     /\ RmTarget \notin detached)
        => /\ <<"DeleteBranch", TargetBranch>> \in {ops[i] : i \in 1..Len(ops)}
           /\ CountOps(LAMBDA o : o[1] = "DeleteBranch") = 1
           /\ TargetBranch \notin heads
           /\ heads = before.heads \ {TargetBranch}
           /\ RmTarget \notin dirs
           /\ ~IsWorktree(RmTarget)

\* C20 witness: the pull request worktree pr-7 with branch h checked out
\* was removed with --delete-branch, and h is gone
C20_Witness ==
    /\ command = "rm"
    /\ pc = "done"
    /\ err = "nil"
    /\ rmDeleteBranch
    /\ args = <<<<"p", "r", "-", "7">>>>
    /\ [path |-> <<<<"p", "r", "-", "7">>>>, branch |-> <<"h">>]
           \in before.worktrees
    /\ <<"h">> \notin heads

\* an error of rm that names the detached HEAD
DetachedHeadErrors ==
    {"failed to determine branch name: worktree is in detached HEAD state"}

\* the errors rm returns before it looks at the worktree's branch
RmEarlyErrors ==
    {"not in a worktree-managed repository",
     "cannot remove worktree you're currently in",
     "worktree has uncommitted changes"}

\* C21: rm on a worktree with a detached HEAD.  Without --force it fails,
\* with the detached-HEAD error once the earlier checks have passed, and the
\* worktree stays in place.  With --force the worktree is removed when rm
\* succeeds, and in neither case is the post-delete hook run or a branch
\* deleted.
C21_DetachedHead ==
    (/\ command = "rm"
     /\ pc = "done"
     /\ TargetWasWorktree
     /\ RmTarget \in detached)
        => /\ OpNames \cap {"RunHook", "DeleteBranch"} = {}
           /\ heads = before.heads
           /\ ~rmForce
                  => /\ err # "nil"
                     /\ err \notin RmEarlyErrors => err \in DetachedHeadErrors
                     /\ "GetWorktreeBranch" \in OpNames
                            => err \in DetachedHeadErrors
                     /\ RmTarget \in dirs
                     /\ worktrees = before.worktrees
                     /\ OpNames \cap {"RemoveWorktree", "RemoveWorktreeForce"}
                            = {}
           /\ (rmForce /\ err = "nil")
                  => /\ RmTarget \notin dirs
                     /\ ~IsWorktree(RmTarget)
                     /\ <<"RemoveWorktreeForce", RmTarget>>
                            \in {ops[i] : i \in 1..Len(ops)}
                     /\ "Could not determine branch name" \in warnings
           /\ rmForce
                  => err \in {"nil", "failed to remove worktree",
                              "not in a worktree-managed repository",
                              "cannot remove worktree you're currently in"}

\* C21 witness: rm --force --delete-branch, with a post-delete hook
\* installed, has removed a worktree whose HEAD was detached
C21_Witness ==
    /\ command = "rm"
    /\ pc = "done"
    /\ err = "nil"
    /\ rmForce
    /\ rmDeleteBranch
    /\ ~rmNoHooks
    /\ hookFile
    /\ TargetWasWorktree
    /\ RmTarget \in detached
    /\ RmTarget \notin dirs

\* the current directory is the directory rm was asked to remove, or lies
\* below it
InOrBelowTarget ==
    Len(cwd) >= Len(RmTarget) /\ Take(cwd, Len(RmTarget)) = RmTarget

\* the calls of rm that inspect or change the worktree
RmWorktreeOps ==
    {"HasUncommittedChanges", "HasUntrackedFiles", "GetWorktreeBranch",
     "RunHook", "RemoveWorktree", "RemoveWorktreeForce", "DeleteBranch"}

\* C22: rm never removes the worktree the caller is in.  When the current
\* directory is the target or a directory below it, rm fails, with or
\* without --force, before any safety check, hook or removal; a current
\* directory next to the target whose name merely begins with the target's
\* name (or any other directory outside the target) is not refused.
C22_NotInsideTarget ==
    /\ (command = "rm" /\ PathExists(RmTarget) /\ InOrBelowTarget)
           => /\ pc \in {"rm_start", "rm_path", "done"}
              /\ OpNames \cap RmWorktreeOps = {}
              /\ heads = before.heads
              /\ dirs = before.dirs
              /\ worktrees = before.worktrees
              /\ pc = "done"
                     => err \in {"not in a worktree-managed repository",
                                 "cannot remove worktree you're currently in"}
    /\ (command = "rm" /\ ~InOrBelowTarget)
           => err # "cannot remove worktree you're currently in"
    /\ (/\ command = "rm"
        /\ ~InOrBelowTarget
        /\ "Getwd" \in OpNames)
           => pc # "done" \/ OpNames \cap RmWorktreeOps # {}

\* C22 witness: rm --force started in a directory below the target worktree
\* has been refused
C22_Witness ==
    /\ command = "rm"
    /\ pc = "done"
    /\ rmForce
    /\ IsWorktree(RmTarget)
    /\ cwd = RmTarget \o <<<<"s">>>>
    /\ err = "cannot remove worktree you're currently in"

(***************************************************************************)
(* Properties of the hooks and the files of .worktree/files, checked under *)
(* SpecCommands.                                                           *)
(***************************************************************************)
FailureWarnings ==
    {"Failed to process files", "Post-create hook failed",
     "Post-delete hook failed"}

\* the worktree add or init has created
CreatedWorktree ==
    IF command = "init"
    THEN [path |-> InitWorktreePath(defaultBranch), branch |-> defaultBranch]
    ELSE [path |-> JoinRoot(directory), branch |-> newBranch]

HookExecuted ==
    \E i \in 1..Len(hookResult.calls) :
        hookResult.calls[i][1] \in {"CreateTemp", "Run"}

\* C24: RunHook executes nothing and returns nil when the hook file does
\* not exist or has no executable bit, and returns an error without
\* executing anything when the content the template produced does not start
\* with the two characters #!.
C24_RunHookSkipsOrRefuses ==
    hookResult.returned
        => /\ hookStat \in {"absent", "plain"}
                  => /\ hookResult.err = "nil"
                     /\ ~HookExecuted
                     /\ hookResult.calls = <<<<"Stat">>>>
           /\ (/\ hookResult.processed # <<>>
               /\ ~HasPrefix(hookResult.processed[1], Shebang))
                  => /\ hookResult.err # "nil"
                     /\ ~HookExecuted
           /\ (\E i \in 1..Len(hookResult.calls) :
                   hookResult.calls[i][1] = "Run")
                  => /\ hookStat = "executable"
                     /\ HasPrefix(hookResult.processed[1], Shebang)

\* C24 witness: an executable hook whose file starts with #! but whose
\* processed content does not (the template printed the branch name before
\* it) was refused
C24_Witness ==
    /\ hookResult.returned
    /\ hookStat = "executable"
    /\ hookBranch = <<"a">>
    /\ hookContent = <<BranchAction>> \o Shebang \o <<"s">>
    /\ hookResult.processed = <<<<"a", "#", "!", "s">>>>
    /\ hookResult.err = "no shebang found in hook script"

(***************************************************************************)
(* Properties of GenerateWorktreeDirectory, checked under SpecDir.         *)
(***************************************************************************)
RECURSIVE ExpectedDirectory(_, _, _)
\* the letters and digits of s in their order and case, two of them
\* separated by one hyphen when a slash, an underscore or a hyphen stood
\* between them in s; started: a letter or digit was seen, sep: a slash,
\* underscore or hyphen was seen since
ExpectedDirectory(s, started, sep) ==
    IF s = <<>> THEN <<>>
    ELSE IF s[1] \in Letters \cup Digits
    THEN (IF started /\ sep THEN <<"-">> ELSE <<>>) \o <<s[1]>>
             \o ExpectedDirectory(Tail(s), TRUE, FALSE)
    ELSE IF s[1] \in {"/", "_", "-"}
    THEN ExpectedDirectory(Tail(s), started, TRUE)
    ELSE ExpectedDirectory(Tail(s), started, sep)

\* the run generated its directory name from the branch name
DirectoryGenerated ==
    <<"GenerateWorktreeDirectory", newBranch>> \in {ops[i] : i \in 1..Len(ops)}

\* C25: the directory name generated for a branch name holds only ASCII
\* letters, digits and hyphens, no two hyphens in a row and no hyphen at
\* its start or end; it keeps the letters and digits of the branch name in
\* their order and case, with one hyphen where slashes, underscores or
\* hyphens stood between two of them, and drops every other character.
C25_DirectoryNameShape ==
    DirectoryGenerated
        => /\ \A i \in 1..Len(directory) :
                  directory[i] \in Letters \cup Digits \cup {"-"}
           /\ \A i \in 1..(Len(directory) - 1) :
                  ~(directory[i] = "-" /\ directory[i + 1] = "-")
           /\ directory # <<>>
                  => directory[1] # "-" /\ directory[Len(directory)] # "-"
           /\ directory = ExpectedDirectory(newBranch, FALSE, FALSE)
           /\ SelectSeq(directory, LAMBDA c : c # "-")
                  = SelectSeq(newBranch, LAMBDA c : c \in Letters \cup Digits)

\* C25 witness: the branch B--.a was given the directory B-a
C25_Witness ==
    /\ DirectoryGenerated
    /\ newBranch = <<"B", "-", "-", ".", "a">>
    /\ directory = <<"B", "-", "a">>
    /\ pc = "branch"

(***************************************************************************)
(* Properties of the branch path of add, checked under SpecBranch.         *)
(***************************************************************************)
\* the calls of git.AddWorktree the run made
AddWorktreeCalls == {ops[i] : i \in OpsAt(LAMBDA o : o[1] = "AddWorktree")}

\* the local branches when the run started (the branch path changes them
\* only by its AddWorktree)
HeadsBefore == cls.heads

\* C26: in the branch path the start of the worktree is chosen by local
\* existence only.  If a local branch named localName exists it is checked
\* out as it is and no branch is created, the startPoint being ignored;
\* otherwise a new local branch localName is created from startPoint when
\* it is not empty and from the base reference otherwise.  A branch that
\* exists only as origin/<name> does not count as existing locally: add
\* origin/a then creates the local branch a from origin/a.
C26_StartByLocalExistence ==
    (command = "add" /\ ~isPR /\ "LocalBranchExists" \in OpNames)
        => /\ CountOps(LAMBDA o : o[1] = "AddWorktree") = 1
           /\ newBranch \in HeadsBefore
                  => /\ AddWorktreeCalls
                            = {<<"AddWorktree", newBranch, JoinRoot(directory),
                                 <<>>>>}
                     /\ heads = HeadsBefore
           /\ newBranch \notin HeadsBefore
                  => /\ AddWorktreeCalls
                            = {<<"AddWorktree", newBranch, JoinRoot(directory),
                                 IF startPoint # <<>> THEN startPoint
                                 ELSE baseBranch>>}
                     /\ pc \in {"files", "hook"}
                            => heads = HeadsBefore \cup {newBranch}
                     /\ err = "failed to create worktree"
                            => heads = HeadsBefore
           /\ (/\ NoNewBranchArg
               /\ HasPrefix(Ref, OriginPrefix)
               /\ TrimPrefix(Ref, OriginPrefix) \notin HeadsBefore)
                  => AddWorktreeCalls
                         = {<<"AddWorktree", TrimPrefix(Ref, OriginPrefix),
                              JoinRoot(directory), Ref>>}
           /\ pc \in {"files", "hook"}
                  => [path |-> JoinRoot(directory), branch |-> newBranch]
                         \in worktrees

\* C26 witness: add origin/a, a being a branch of origin but not a local
\* branch, has created the local branch a from origin/a
C26_Witness ==
    /\ command = "add"
    /\ args = <<OriginPrefix \o <<"a">>>>
    /\ <<"a">> \in remoteHeads
    /\ <<"a">> \notin HeadsBefore
    /\ pc = "files"
    /\ <<"a">> \in heads
    /\ <<"AddWorktree", <<"a">>, <<<<"a">>>>, OriginPrefix \o <<"a">>>>
           \in AddWorktreeCalls

(***************************************************************************)
(* Properties of add run again, checked under Spec.                        *)
(***************************************************************************)
\* the calls of add from the PR fetch on
AddRepositoryOps ==
    {"LookPath", "RemoteGetURL", "GhPrView", "FetchRef", "Fetch",
     "LocalBranchExists", "AddWorktree", "ProcessTemplates", "RunHookByName"}

\* something existed at path when the current run was started
ExistedBefore(path) ==
    \/ path = <<>>
    \/ \E d \in before.dirs : Len(d) >= Len(path) /\ Take(d, Len(path)) = path

\* the repository is as it was when the current run was started
RepositoryAsBefore ==
    /\ dirs = before.dirs
    /\ worktrees = before.worktrees
    /\ heads = IF run = 1 THEN cls.heads ELSE before.heads

\* C27: when the target directory exists already, add fails with the
\* already-exists error before it changes anything: no pull request is
\* fetched, no branch is created or updated, no worktree is added, neither
\* the files nor the hook are processed, in the PR path and in the branch
\* path alike; so a successful add that is run again with the same
\* arguments fails and changes nothing.
C27_ExistingDirectoryRefused ==
    /\ (command = "add" /\ err = "directory already exists")
           => /\ pc = "done"
              /\ ExistedBefore(JoinRoot(directory))
              /\ OpNames \cap AddRepositoryOps = {}
              /\ attempts = <<>>
              /\ warnings = {}
              /\ RepositoryAsBefore
    /\ (/\ command = "add"
        /\ Classified
        /\ cls.err = "nil"
        /\ pc # "dir"
        /\ ExistedBefore(JoinRoot(directory)))
           => pc = "done" /\ err = "directory already exists"
    /\ (command = "add" /\ run > 1 /\ before.err = "nil" /\ pc = "done")
           => /\ err \in {"directory already exists",
                          "not in a worktree-managed repository"}
              /\ RepositoryAsBefore
              /\ OpNames \cap AddRepositoryOps = {}

\* C27 witness: add pr/7, which had created the worktree pr-7 of the head
\* branch h, was run again with gh and the branches changed, and refused
C27_Witness ==
    /\ command = "add"
    /\ run = 2
    /\ args = <<PrPrefix \o <<"7">>>>
    /\ before.err = "nil"
    /\ [path |-> <<<<"p", "r", "-", "7">>>>, branch |-> <<"h">>] \in worktrees
    /\ cls.gh # prevCls.gh
    /\ pc = "done"
    /\ err = "directory already exists"

(***************************************************************************)
(* Properties of the files and the post-create hook in add, checked under  *)
(* SpecAdd.                                                                *)
(***************************************************************************)
IsProcessTemplates(o) == o[1] = "ProcessTemplates"

IsPostCreateHook(o) == o[1] = "RunHookByName"

IsAddWorktree(o) == o[1] = "AddWorktree"

\* C28: in add the files are processed and the post-create hook is run only
\* after the worktree has been created, the files first and the hook second,
\* each at most once and on the worktree just created; when the resolution
\* of the pull request or the creation of the worktree fails (or add fails
\* otherwise) neither happens, and with --no-hooks the hook is never run.
C28_FilesThenHookAfterCreation ==
    /\ CountOps(IsProcessTemplates) <= 1
    /\ CountOps(IsPostCreateHook) <= 1
    /\ \A i \in OpsAt(IsProcessTemplates) \cup OpsAt(IsPostCreateHook) :
           /\ \E j \in OpsAt(IsAddWorktree) : j < i
           /\ [path |-> JoinRoot(directory), branch |-> newBranch]
                  \in worktrees
           /\ JoinRoot(directory) \in dirs
           /\ ops[i][Len(ops[i]) - 1] = newBranch
           /\ ops[i][Len(ops[i])] = JoinRoot(directory)
    /\ \A i \in OpsAt(IsProcessTemplates), j \in OpsAt(IsPostCreateHook) : i < j
    /\ err # "nil"
           => OpNames \cap {"ProcessTemplates", "RunHookByName"} = {}
    /\ (pc = "done" /\ ~(\E w \in worktrees : w.path = JoinRoot(directory)))
           => OpNames \cap {"ProcessTemplates", "RunHookByName"} = {}
    /\ addNoHooks => "RunHookByName" \notin OpNames
    /\ (pc = "done" /\ err = "nil" /\ ~addNoHooks)
           => "RunHookByName" \in OpNames

\* C28 witness: add of a pull request has processed the files and then run
\* the post-create hook in the worktree it created
C28_Witness ==
    /\ pc = "done"
    /\ err = "nil"
    /\ isPR
    /\ OpsAt(IsProcessTemplates) # {}
    /\ OpsAt(IsPostCreateHook) # {}
    /\ [path |-> JoinRoot(directory), branch |-> newBranch] \in worktrees

(***************************************************************************)
(* Properties of the branches FetchPR writes, checked under SpecFetch.     *)
(***************************************************************************)
\* the commits the local branches pointed at when the run classified its
\* argument, before FetchPR
TipsBefore == cls.tips

\* the names FetchPR may write: the desired name and the head branch name
\* of the pull request, once gh has reported it
FetchPRNames ==
    {directory} \cup (IF headRefName # <<>> THEN {headRefName} ELSE {})

IsFetch(o) == o[1] \in {"FetchRef", "Fetch"}

AlternateSucceeded ==
    /\ Len(attempts) = 3
    /\ attempts[3].tier = "RefspecAlternate"
    /\ attempts[3].err = "nil"

\* C29: add of pull request n with desired name d changes at most the local
\* branches d and h, the head branch name gh reported: every other branch
\* exists and points at the same commit as before, whether the fetch
\* succeeds or fails; no branch is removed, and the branch a tier fetched
\* still points at the head of the pull request when the worktree cannot be
\* created afterwards; a branch that existed changes only by a
\* fast-forward, except the desired name after the alternate refspec, which
\* is the only forced fetch.
C29_FetchPRFrame ==
    (cls.set /\ isPR)
        => /\ \A b \in (DOMAIN TipsBefore \cup DOMAIN tip) \ FetchPRNames :
                  /\ b \in DOMAIN TipsBefore
                  /\ b \in DOMAIN tip
                  /\ tip[b] = TipsBefore[b]
           /\ DOMAIN TipsBefore \subseteq DOMAIN tip
           /\ DOMAIN tip = heads
           /\ tier # "none"
                  => branchName \in DOMAIN tip /\ tip[branchName] = "pr"
           /\ \A b \in DOMAIN TipsBefore :
                  tip[b] # TipsBefore[b]
                      => /\ tip[b] = "pr"
                         /\ \/ TipsBefore[b] = "ancestor"
                            \/ b = directory /\ AlternateSucceeded
           /\ \A i \in OpsAt(IsFetch) :
                  Forced(ops[i][2])
                      => /\ ops[i] = <<"Fetch", ForceRefspec(prNumber, directory)>>
                         /\ Len(attempts) = 3
                         /\ attempts[2].err # "nil"
                         /\ \A j \in OpsAt(IsFetch) : j <= i

\* C29 witness: add pr/7/a found the branches a and n at commits git cannot
\* fast-forward from; the first refspec attempt failed, the alternate one
\* overwrote a, the worktree could not be created, and a stays overwritten
\* while n is as it was
C29_Witness ==
    /\ args = <<PrPrefix \o <<"7", "/", "a">>>>
    /\ TipsBefore = [b \in {<<"a">>, NewBranchArg} |-> "diverged"]
    /\ AlternateSucceeded
    /\ pc = "done"
    /\ err = "failed to create worktree"
    /\ tip = [b \in {<<"a">>, NewBranchArg} |->
                  IF b = <<"a">> THEN "pr" ELSE "diverged"]

====
